---- MODULE Spec2Model ----
(***************************************************************************)
(* A model of vane's flow field engine (src/src/field.rs): the compressed  *)
(* texel storage of FlowField, the edit session FlowFieldGuard with its    *)
(* flush on Drop, and the generators that fill a field; of the field       *)
(* textures of a region (src/src/render/mod.rs); of measured values and   *)
(* triggers (src/src/vane/measure.rs); of activity tracking                *)
(* (src/src/activity.rs); and of layer masks (src/src/flow.rs).            *)
(*                                                                         *)
(* Specifications                                                          *)
(*   Spec       : the field and its edit session.                          *)
(*   RenderSpec : the field beside its GPU mirror (FlowFieldPlugin,        *)
(*                GpuFlowField::prepare_asset, the sampler).               *)
(*   WideRenderSpec : the same, over fields whose row of texels overflows  *)
(*                the u32 byte count of the upload.                        *)
(*   GenSpec    : generator objects on their own (tuples, transformed,     *)
(*                amplified).                                              *)
(*   CalcSpec   : pure functions, each evaluated once on inputs drawn from *)
(*                bounded sets (the sample position of a fill, FlowVector  *)
(*                accessors).                                              *)
(*   RegionSpec : ExtractedRegionFields and prepare_flow_field_indices     *)
(*                beside the prepared mirrors.                             *)
(*   MeasureSpec: a Measured<M> component and its value().                 *)
(*   ActivitySpec: tracked entities and active regions under               *)
(*                update_activities.                                       *)
(*   CommandSpec: the command SetActiveMany on a world of tracked entities.*)
(*   TriggerSpec: Trigger::from_bounds on ranges drawn from a bounded set. *)
(*   LayerSpec  : the calls of FlowLayers, in builds with and without      *)
(*                overflow checks.                                         *)
(*                                                                         *)
(* Number representations                                                  *)
(*   u32   : a natural below 2^31 in the state; the arithmetic of the code *)
(*           is done on the two 16-bit halves of the 32-bit word, so that  *)
(*           a product or a sum keeps its width (wraps at 2^32) and        *)
(*           reports its overflow.                                         *)
(*   f32   : the integer n stands for the float n/2 (every float used is a *)
(*           multiple of 1/2 that f32 holds exactly); PosInf and NegInf    *)
(*           stand for the infinities.                                     *)
(*   f16   : the 16-bit pattern (sign, 5 exponent bits, 10 mantissa bits)  *)
(*           as a natural 0..65535.                                        *)
(***************************************************************************)
EXTENDS Integers, Sequences, FiniteSets, TLC

VARIABLES
    phase,          \* "nofield" | "idle" | "open" | "unwinding"
    size,           \* FlowField.size
    label,          \* FlowField.label: <<>> is None, <<s>> is Some(s)
    texels,         \* FlowField.texels: sequence of RawFlowVector ([f16; 4] bit patterns)
    gsize,          \* FlowFieldGuard.size
    scratch,        \* FlowFieldGuard.scratch: sequence of FlowVector (f32 x 4)
    last,           \* the last call made and what it returned
    lastGen,        \* the generator handed to the last fill_from_gen or from_gen
    calls,          \* positions handed to the generator by the last fill, in order
    exitPath,       \* how the last session ended: "none" | "scope" | "early_return" | "panic"
    writes,         \* number of writes made to the current field
    render,         \* the render sub-app: "unbuilt" | "norender" | "startup" | "running" | "crashed"
    sampler,        \* the samplers created so far (FlowFieldSampler is the last one)
    snapshot,       \* the extracted source asset waiting for prepare_asset: <<>> or <<field>>
    mirror,         \* the GpuFlowField installed for the field: <<>> or <<mirror>>
    textures,       \* number of textures created so far (a texture's identity is its number)
    created,        \* the extent each texture was created with, by texture number
    pass,           \* what the last preparation pass did
    generator,      \* a generator object built from closures, Uniform, tuples, transformed
    probe,          \* how generator was built, and its last call of generate
    calc,           \* the last evaluation of a pure function of field.rs
    fields,         \* RenderAssets<GpuFlowField>: field id -> its mirror's texture view, 0 if none
    views,          \* number of texture views created so far (a view's identity is its number)
    flows,          \* ExtractedRegion.flows: the field ids of the region's flows, in iteration order
    indices,        \* ExtractedRegionFields.indices: field id -> index
    field_textures, \* ExtractedRegionFields.field_textures: sequence of texture views
    run,            \* prepare_flow_field_indices: its position, its last call, what it returned
    measured,       \* Measured<M>.value: <<>> is None, <<x>> is Some(x)
    reading,        \* what the last call of Measured::value returned
    tracked,        \* the entities of the main world: entity -> life, Aabb, Active marker
    active_regions, \* the ActiveRegion entities in query order: Aabb and ActiveEntities
    triggered,      \* the events triggered by the last system or command, in order
    system,         \* the last run of update_activities or SetActiveMany::apply
    trigger,        \* the last Trigger built by from_bounds, beside the range given
    layers,         \* a FlowLayers value: the set of bits of its u32 that are 1
    layerCall       \* the last call made on FlowLayers and how it ended

\* the main-world side: the field and its edit session
fieldVars == <<phase, size, label, texels, gsize, scratch, last, lastGen, calls,
               exitPath, writes>>

\* the render-world side
gpuVars == <<render, sampler, snapshot, mirror, textures, created, pass>>

\* a generator on its own
genVars == <<generator, probe>>

\* one evaluation of a pure function
calcVars == <<calc>>

\* a region of the render world beside the prepared mirrors
regionVars == <<fields, views, flows, indices, field_textures, run>>

\* the groups that the field, the render world and the generators leave alone
\* a Measured<M> component
measureVars == <<measured, reading>>

\* tracked entities and active regions (activity.rs)
activityVars == <<tracked, active_regions, triggered, system>>

\* a Trigger<M> component
triggerVars == <<trigger>>

\* a FlowLayers mask
layerVars == <<layers, layerCall>>

laterVars == <<activityVars, triggerVars, layerVars>>

restVars == <<calcVars, regionVars, measureVars, laterVars>>

vars == <<phase, size, label, texels, gsize, scratch, last, lastGen, calls,
          exitPath, writes, render, sampler, snapshot, mirror, textures, created, pass,
          generator, probe, calc, fields, views, flows, indices, field_textures, run,
          measured, reading, tracked, active_regions, triggered, system, trigger,
          layers, layerCall>>

----------------------------------------------------------------------------
(* Bounds of the model *)

MaxExtent == 2
MaxWrites == 1

----------------------------------------------------------------------------
(* u32 arithmetic on 32-bit words *)

\* a u32 as its two 16-bit halves <<high, low>>, from a natural below 2^31
ToWord(n) == <<n \div 65536, n % 65536>>

\* TRUE iff the word's value is below 2^31, so that WordVal can hold it
WordSmall(w) == w[1] < 32768

WordVal(w) == w[1] * 65536 + w[2]

\* t * 256 + u as <<high, low>> halves
Join16(t, u) == <<(t \div 256) + (((t % 256) * 256 + u) \div 65536),
                  ((t % 256) * 256 + u) % 65536>>

\* the 32-bit product of two 16-bit halves, as <<high, low>>
Mul16(x, y) == Join16(x * (y \div 256), x * (y % 256))

\* the four partial products of a 32 x 32 bit multiplication, summed
MulParts(ll, lh, hl, hh) ==
    [val |-> <<(ll[1] + lh[2] + hl[2]) % 65536, ll[2]>>,
     ovf |-> (ll[1] + lh[2] + hl[2]) >= 65536 \/ lh[1] # 0 \/ hl[1] # 0 \/ hh # <<0, 0>>]

\* u32 * u32: the low 32 bits of the product, and whether the product needed more
MulU32(a, b) ==
    IF a[1] = 0 /\ b[1] = 0 /\ a[2] < 32768 /\ b[2] < 32768
    THEN [val |-> ToWord(a[2] * b[2]), ovf |-> FALSE]
    ELSE MulParts(Mul16(a[2], b[2]), Mul16(a[2], b[1]), Mul16(a[1], b[2]), Mul16(a[1], b[1]))

\* u32 + u32: the low 32 bits of the sum, and whether the sum needed more
AddU32(a, b) ==
    [val |-> <<(a[1] + b[1] + ((a[2] + b[2]) \div 65536)) % 65536, (a[2] + b[2]) % 65536>>,
     ovf |-> (a[1] + b[1] + ((a[2] + b[2]) \div 65536)) >= 65536]

\* a u32 operand: its word, no overflow so far
U32(n) == [val |-> ToWord(n), ovf |-> FALSE]

\* the result r of one operation, with the overflows of its operands carried along
Carried(r, o) == [val |-> r.val, ovf |-> r.ovf \/ o]

\* a * b and a + b on u32 results
Mul(a, b) == Carried(MulU32(a.val, b.val), a.ovf \/ b.ovf)

Add(a, b) == Carried(AddU32(a.val, b.val), a.ovf \/ b.ovf)

----------------------------------------------------------------------------
(* f32 and f16 *)

PosInf == 2^30
NegInf == -(2^30)
NaN == 2^30 + 1

\* position of the most significant set bit of n >= 1
RECURSIVE MsbPos(_)
MsbPos(n) == IF n <= 1 THEN 0 ELSE 1 + MsbPos(n \div 2)

\* n / 2^d rounded to the nearest integer, ties to even
RoundHalfEven(n, d) ==
    IF d = 0 THEN n
    ELSE IF n % (2^d) > 2^(d - 1) THEN (n \div (2^d)) + 1
    ELSE IF n % (2^d) < 2^(d - 1) THEN n \div (2^d)
    ELSE (n \div (2^d)) + ((n \div (2^d)) % 2)

\* n > 0 with its d low bits rounded away, ties to even
RoundLowBits(n, d) == IF d <= 0 THEN n ELSE RoundHalfEven(n, d) * (2^d)

\* an integer rounded to `bits` significant bits, ties to even
RoundSig(n, bits) ==
    IF n = 0 THEN 0
    ELSE IF n < 0 THEN -RoundLowBits(-n, MsbPos(-n) - bits + 1)
    ELSE RoundLowBits(n, MsbPos(n) - bits + 1)

\* u32 as f32 (UVec3::as_vec3): 24 significant bits
F32FromU32(n) == RoundSig(n, 24)

\* the 11-bit significand of n > 0 whose most significant bit is bit e
F16Significand(n, e) == IF e <= 10 THEN n * (2^(10 - e)) ELSE RoundHalfEven(n, e - 10)

\* exponent and mantissa bits from the biased exponent and the significand
F16Pack(ex, m) ==
    IF m = 2048 THEN (IF ex + 1 >= 31 THEN 31744 ELSE (ex + 1) * 1024)
    ELSE IF ex >= 31 THEN 31744
    ELSE ex * 1024 + (m - 1024)

\* f16::from_f32 of a finite magnitude n/2 > 0: exponent and mantissa bits
F16Magnitude(n) == F16Pack(MsbPos(n) + 14, F16Significand(n, MsbPos(n)))

\* f16::from_f32 (round to nearest even, overflow to infinity): the bit pattern
F16FromF32(n) ==
    IF n = NaN THEN 32256
    ELSE IF n = PosInf THEN 31744
    ELSE IF n = NegInf THEN 32768 + 31744
    ELSE IF n = 0 THEN 0
    ELSE IF n < 0 THEN 32768 + F16Magnitude(-n)
    ELSE F16Magnitude(n)

\* the magnitude, in halves, of the normal f16 with biased exponent ex and mantissa mant
F16NormalValue(ex, mant) ==
    IF ex >= 24 THEN (1024 + mant) * (2^(ex - 24)) ELSE (1024 + mant) \div (2^(24 - ex))

\* f16::to_f32 (exact): the float a bit pattern stands for
F16ToF32(bits) ==
    IF (bits % 32768) \div 1024 = 31
    THEN (IF bits % 1024 # 0 THEN NaN ELSE IF bits >= 32768 THEN NegInf ELSE PosInf)
    ELSE IF (bits % 32768) \div 1024 = 0 THEN 0
    ELSE IF bits >= 32768 THEN -F16NormalValue((bits % 32768) \div 1024, bits % 1024)
    ELSE F16NormalValue((bits % 32768) \div 1024, bits % 1024)

----------------------------------------------------------------------------
(* FlowVector: <<momentum x, momentum y, momentum z, density>> *)

Chan == 1..4

ZERO == <<0, 0, 0, 0>>

\* FlowVector::new(momentum_density, density)
New(m, d) == <<m[1], m[2], m[3], d>>

\* the RawFlowVector holding f16::from_f32(0.0) four times
ZeroTexel == [i \in Chan |-> F16FromF32(0)]

\* four f32 lanes to four f16 lanes (convert_from_f32_slice, per element)
CompressVec(v) == [i \in Chan |-> F16FromF32(v[i])]

\* four f16 lanes to four f32 lanes (convert_to_f32_slice, per element)
DecompressVec(t) == [i \in Chan |-> F16ToF32(t[i])]

----------------------------------------------------------------------------
(* Inputs *)

\* extents up to MaxExtent on each axis, and sizes whose product needs more than 32 bits
SmallSizes == (0..MaxExtent) \X (0..MaxExtent) \X (0..MaxExtent)

OverflowSizes == {<<65536, 65536, 1>>, <<1073741825, 2, 2>>, <<65536, 65536, 0>>}

Sizes == SmallSizes \cup OverflowSizes

\* the coordinates handed to get, get_mut and set: on each axis the first cell, the
\* last cell and the first coordinate past the end, at most one axis being out of range
AxisProbes(n) == {0, n} \cup (IF n > 0 THEN {n - 1} ELSE {})

Probes(s) ==
    {c \in AxisProbes(s[1]) \X AxisProbes(s[2]) \X AxisProbes(s[3]) :
        Cardinality({i \in 1..3 : c[i] >= s[i]}) <= 1}

\* momentum (1,0,0) with density 2.0, which f16 holds exactly; and the vector
\* (1024.5, -2049.5, 70000, 65519.5), which it does not: a tie, a value between two
\* f16 values, a value beyond the f16 range, and a value that rounds to the largest f16
Values == {New(<<2, 0, 0>>, 4),
           New(<<2049, -4099, 140000>>, 131039)}

Labels == {"wind"}

----------------------------------------------------------------------------
(* Generators *)

\* uniform_flow_field(v); the closure |p| FlowVector::new(p, 1.0); the stateful
\* closure that counts its calls, || { n += 1; FlowVector::new(Vec3::ZERO, n) }
Gens == {[kind |-> "uniform", v |-> v, n |-> 0] : v \in Values}
        \cup {[kind |-> "position", v |-> ZERO, n |-> 0],
              [kind |-> "counter", v |-> ZERO, n |-> 0]}

\* FlowFieldGenerator::generate(&mut self, position): the vector returned and the
\* generator afterwards
Generate(g, pos) ==
    IF g.kind = "uniform" THEN [out |-> g.v, gen |-> g]
    ELSE IF g.kind = "position" THEN [out |-> New(pos, 2), gen |-> g]
    ELSE [out |-> New(<<0, 0, 0>>, 2 * (g.n + 1)), gen |-> [g EXCEPT !.n = g.n + 1]]

\* f32 + f32
AddF32(a, b) ==
    IF a = NaN \/ b = NaN THEN NaN
    ELSE IF a \in {PosInf, NegInf}
         THEN (IF b \in {PosInf, NegInf} /\ b # a THEN NaN ELSE a)
    ELSE IF b \in {PosInf, NegInf} THEN b
    ELSE RoundSig(a + b, 24)

\* f32 * f32, for operands whose product is a multiple of 1/2
MulF32(a, b) ==
    IF a = NaN \/ b = NaN THEN NaN
    ELSE IF a \in {PosInf, NegInf} \/ b \in {PosInf, NegInf}
         THEN (IF a = 0 \/ b = 0 THEN NaN
               ELSE IF (a > 0) = (b > 0) THEN PosInf ELSE NegInf)
    ELSE RoundSig((a * b) \div 2, 24)

\* f32 / f32, for operands whose quotient is a multiple of 1/2; the divisor 0 is +0.0
DivF32(a, b) ==
    IF a = NaN \/ b = NaN THEN NaN
    ELSE IF a \in {PosInf, NegInf}
         THEN (IF b \in {PosInf, NegInf} THEN NaN
               ELSE IF (a > 0) = (b >= 0) THEN PosInf ELSE NegInf)
    ELSE IF b \in {PosInf, NegInf} THEN 0
    ELSE IF b = 0 THEN (IF a = 0 THEN NaN ELSE IF a > 0 THEN PosInf ELSE NegInf)
    ELSE RoundSig((2 * a) \div b, 24)

\* Vec3 * f32 and Vec3 / f32: on each component
MulVec3(v, k) == [i \in 1..3 |-> MulF32(v[i], k)]

DivVec3(v, k) == [i \in 1..3 |-> DivF32(v[i], k)]

\* FlowVector::from_velocity(velocity, density)
from_velocity(v, d) == New(MulVec3(v, d), d)

\* FlowVector::momentum_density(self)
momentum_density(fv) == <<fv[1], fv[2], fv[3]>>

\* FlowVector::density(self)
density(fv) == fv[4]

\* a velocity that is the momentum density whatever the density
velocity_undivided(fv) == momentum_density(fv)

\* FlowVector::velocity(self)
velocity(fv) == DivVec3(momentum_density(fv), density(fv))

\* impl Add / AddAssign for FlowVector: Self(self.0 + rhs.0)
AddVec(u, v) == [i \in Chan |-> AddF32(u[i], v[i])]

\* a product by a scalar that leaves the density lane as it was
MulMomentumOnly(v, k) == [i \in Chan |-> IF i = 4 THEN v[i] ELSE MulF32(v[i], k)]

\* impl Mul<f32> for FlowVector: Self(self.0 * rhs)
MulScalar(v, k) == [i \in Chan |-> MulF32(v[i], k)]

\* Transform { translation, rotation: Quat::IDENTITY, scale }.compute_affine(): the
\* diagonal of the 3 x 3 matrix and the translation
compute_affine(t) == [matrix3 |-> t.scale, translation |-> t.translation]

\* 1 / x for a power of two x
RecipF32(x) == IF x = 0 THEN PosInf ELSE 4 \div x

\* an affine map kept as it is where its inverse is wanted
AffineAsIs(a) == a

\* Affine3A::inverse(): the inverse matrix, and minus the inverse matrix times the
\* translation
AffineInverse(a) ==
    [matrix3 |-> [i \in 1..3 |-> RecipF32(a.matrix3[i])],
     translation |-> [i \in 1..3 |-> -MulF32(RecipF32(a.matrix3[i]), a.translation[i])]]

\* Affine3A::transform_point3(p): matrix3 * p + translation
transform_point3(a, p) ==
    [i \in 1..3 |-> AddF32(MulF32(a.matrix3[i], p[i]), a.translation[i])]

\* FlowFieldGenerator::transformed(self, transform)
Transformed(g, t) ==
    [kind |-> "transformed", inner |-> g, world_to_local |-> AffineInverse(compute_affine(t))]

\* FlowFieldGenerator::amplified(self, multiplier)
Amplified(g, k) == [kind |-> "amplified", inner |-> g, multiplier |-> k]

\* a tuple of generators
Tuple(parts) == [kind |-> "tuple", parts |-> parts]

\* what a call of generate gave: the vector, the generator afterwards, and the calls
\* made to closures and Uniform generators, in order, each as <<generator, position>>
Generated(out, gen, trace) == [out |-> out, gen |-> gen, trace |-> trace]

\* a tuple step that overwrites the vector where the code adds to it
TupleOverwrite(vector, r) == r.out

\* vector += <T as FlowFieldGenerator>::generate(t, position)
TupleAdd(vector, r) == AddVec(vector, r.out)

RECURSIVE GenerateComposed(_, _)
RECURSIVE GenerateTuple(_, _, _, _, _, _)

GenerateLeaf(g, pos, r) == Generated(r.out, r.gen, <<<<g, pos>>>>)

GenerateInner(g, r) == Generated(r.out, [g EXCEPT !.inner = r.gen], r.trace)

\* Amplified::generate: self.inner.generate(position) * self.multiplier
GenerateAmplified(g, r) ==
    Generated(MulScalar(r.out, g.multiplier), [g EXCEPT !.inner = r.gen], r.trace)

TupleStep(parts, pos, k, vector, done, trace, r) ==
    GenerateTuple(parts, pos, k + 1, TupleAdd(vector, r), Append(done, r.gen),
                  trace \o r.trace)

\* the body of generate for a tuple, from its k-th component on
GenerateTuple(parts, pos, k, vector, done, trace) ==
    IF k > Len(parts) THEN Generated(vector, Tuple(done), trace)
    ELSE TupleStep(parts, pos, k, vector, done, trace, GenerateComposed(parts[k], pos))

\* FlowFieldGenerator::generate for tuples, for Transformed, for Amplified, and for
\* closures and Uniform
GenerateComposed(g, pos) ==
    IF g.kind = "tuple" THEN GenerateTuple(g.parts, pos, 1, ZERO, <<>>, <<>>)
    ELSE IF g.kind = "amplified"
         THEN GenerateAmplified(g, GenerateComposed(g.inner, pos))
    ELSE IF g.kind = "transformed"
         THEN GenerateInner(g, GenerateComposed(g.inner, transform_point3(g.world_to_local, pos)))
    ELSE GenerateLeaf(g, pos, Generate(g, pos))

----------------------------------------------------------------------------
(* FlowField and FlowFieldGuard *)

\* size.x * size.y * size.z on u32, left to right
SizeProduct(s) == Mul(Mul(U32(s[1]), U32(s[2])), U32(s[3]))

\* self.size.x * self.size.y * coords.z + self.size.x * coords.y + self.size.x on u32
coords_to_index(gs, c) ==
    Add(Add(Mul(Mul(U32(gs[1]), U32(gs[2])), U32(c[3])), Mul(U32(gs[1]), U32(c[2]))),
        U32(gs[1]))

\* scratch[index as usize] for a computed index: the 1-based place in the scratch
\* sequence, or 0 when the call panics (arithmetic overflow with overflow checks on,
\* or index out of bounds)
PlaceOf(ix, len, checks) ==
    IF ix.ovf /\ checks THEN 0
    ELSE IF WordSmall(ix.val) /\ WordVal(ix.val) < len THEN WordVal(ix.val) + 1
    ELSE 0

\* self.scratch[self.coords_to_index(coords) as usize]
ScratchPlace(gs, c, len, checks) == PlaceOf(coords_to_index(gs, c), len, checks)

\* a scratch buffer that starts from zero vectors, whatever the texels hold
DecompressAsZero(tx) == [i \in 1..Len(tx) |-> ZERO]

\* modify(): the scratch buffer decompressed from the texels
Decompress(tx) == [i \in 1..Len(tx) |-> DecompressVec(tx[i])]

\* a guard whose release leaves the texels as they were when the session opened
DropWithoutFlush(tx, sc) == tx

\* Drop for FlowFieldGuard: the texels recompressed from the scratch buffer
DropFlush(tx, sc) == [i \in 1..Len(tx) |-> CompressVec(sc[i])]

\* a sample position at the low corner of the cell: pos.as_vec3() - size / 2
SamplePositionCorner(c, gs) ==
    [i \in 1..3 |-> RoundSig(2 * F32FromU32(c[i]) - F32FromU32(gs[i]), 24)]

\* pos.as_vec3() + Vec3::splat(0.5) - self.size.as_vec3().div(2.0), in halves
SamplePosition(c, gs) ==
    [i \in 1..3 |-> RoundSig(RoundSig(2 * F32FromU32(c[i]) + 1, 24) - F32FromU32(gs[i]), 24)]

\* loops nested the other way round: z outermost, x innermost
NextCoordXInnermost(c, gs) ==
    IF c[1] + 1 < gs[1] THEN <<c[1] + 1, c[2], c[3]>>
    ELSE IF c[2] + 1 < gs[2] THEN <<0, c[2] + 1, c[3]>>
    ELSE IF c[3] + 1 < gs[3] THEN <<0, 0, c[3] + 1>>
    ELSE <<>>

\* the coordinate the loops of fill_from_gen visit after c; <<>> after the last
NextCoord(c, gs) ==
    IF c[3] + 1 < gs[3] THEN <<c[1], c[2], c[3] + 1>>
    ELSE IF c[2] + 1 < gs[2] THEN <<c[1], c[2] + 1, 0>>
    ELSE IF c[1] + 1 < gs[1] THEN <<c[1] + 1, 0, 0>>
    ELSE <<>>

\* what a fill leaves: the scratch buffer, the generator, its calls, and whether it panicked
Filled(sc, g, cl, panicked) == [scratch |-> sc, gen |-> g, calls |-> cl, panicked |-> panicked]

\* the loops of fill_from_gen from coordinate c on
RECURSIVE FillLoop(_, _, _, _, _, _)

\* one iteration: r is what generator.generate(pos_vec3) returned, at the place of
\* self.set(pos, vector)
FillStep(c, gs, sc, cl, checks, r, at) ==
    IF at = 0 THEN Filled(sc, r.gen, Append(cl, c), TRUE)
    ELSE IF NextCoord(c, gs) = <<>>
    THEN Filled([sc EXCEPT ![at] = r.out], r.gen, Append(cl, c), FALSE)
    ELSE FillLoop(NextCoord(c, gs), gs, [sc EXCEPT ![at] = r.out], r.gen, Append(cl, c),
                  checks)

FillLoop(c, gs, sc, g, cl, checks) ==
    FillStep(c, gs, sc, cl, checks, Generate(g, SamplePosition(c, gs)),
             ScratchPlace(gs, c, Len(sc), checks))

\* fill_from_gen(generator) on a guard: no iteration when an extent is zero
Fill(gs, sc, g, checks) ==
    IF \E i \in 1..3 : gs[i] = 0
    THEN Filled(sc, g, <<>>, FALSE)
    ELSE FillLoop(<<0, 0, 0>>, gs, sc, g, <<>>, checks)

\* The build either panics on a u32 overflow (overflow-checks on, the dev profile) or
\* wraps (the release profile). A field whose size product overflowed was built by a
\* wrapping build, so the calls on its guard wrap too; on any other field the calls of
\* the model do not overflow.
ChecksOn(gs) == ~SizeProduct(gs).ovf

\* vec![[f16::from_f32(0.0); 4]; n]
ZeroTexels(n) == [i \in 1..n |-> ZeroTexel]

----------------------------------------------------------------------------
(* State machine *)

NoSize == <<0, 0, 0>>

Call(op, c, v, out, ok) == [op |-> op, c |-> c, v |-> v, out |-> out, ok |-> ok]

NoGen == [kind |-> "none", v |-> ZERO, n |-> 0]

\* no preparation pass has run yet
NoPass == [returned |-> "none", failed |-> FALSE, reused |-> FALSE]

\* nothing known of a generator: no transform given, no call of generate made
NoProbe == [transform |-> <<>>, k |-> 0, pos |-> <<>>, out |-> ZERO, trace |-> <<>>,
            before |-> NoGen]

\* no pure function evaluated yet
NoCalc == [op |-> "none", made |-> "none", size |-> NoSize, coord |-> NoSize,
           pos |-> <<0, 0, 0>>, v |-> <<0, 0, 0>>, d |-> 0, fv |-> ZERO,
           vel |-> <<0, 0, 0>>]

\* the field assets of the model
FieldIds == {"a", "b"}

\* HashMap::default()
NoIndices == [id \in {} |-> 0]

\* no call made on ExtractedRegionFields yet
NoCall == [op |-> "none", id |-> "", ok |-> TRUE, index |-> 0]

\* prepare_flow_field_indices has not run yet
NoRun == [pc |-> "idle", todo |-> <<>>, returned |-> "none", id |-> "", call |-> NoCall,
          missed |-> {}]

\* value() has not been called yet
NoReading == [kind |-> "none", x |-> ZERO]

\* the entities that may be spawned with TrackActivity; Entity ids are handed out in
\* this order
MaxEntities == 2
EntityIds == 1..MaxEntities

\* Aabb { center, half_extents } (bevy_camera::primitives::Aabb), floats that are
\* small integers
Aabb(c, h) == [center |-> c, half_extents |-> h]

\* Aabb::default()
NoAabb == Aabb(<<0, 0, 0>>, <<0, 0, 0>>)

\* an Entity id that was never spawned
NoEntity == [life |-> "unspawned", aabb |-> NoAabb, active |-> FALSE]

\* neither update_activities nor SetActiveMany has run on the present world
NoSystem == [name |-> "none", was |-> [e \in EntityIds |-> FALSE], reported |-> <<>>,
             entities |-> <<>>, active |-> FALSE]

\* Bound<T>: Unbounded, Included(x), Excluded(x)
Unbounded == [bound |-> "Unbounded", x |-> 0]
Included(x) == [bound |-> "Included", x |-> x]
Excluded(x) == [bound |-> "Excluded", x |-> x]

\* no Trigger has been built yet
NoTrigger == [made |-> FALSE, range |-> [start |-> Unbounded, end |-> Unbounded],
              start |-> Unbounded, end |-> Unbounded]

\* no call has been made on FlowLayers yet
NoLayerCall == [op |-> "none", layer |-> 0, build |-> "none", completed |-> TRUE,
                self |-> {}, other |-> {}, out |-> {}, hit |-> FALSE]

Init ==
    /\ phase = "nofield"
    /\ size = NoSize
    /\ label = <<>>
    /\ texels = <<>>
    /\ gsize = NoSize
    /\ scratch = <<>>
    /\ last = Call("none", NoSize, ZERO, ZERO, TRUE)
    /\ lastGen = NoGen
    /\ calls = <<>>
    /\ exitPath = "none"
    /\ writes = 0
    /\ render = "unbuilt"
    /\ sampler = <<>>
    /\ snapshot = <<>>
    /\ mirror = <<>>
    /\ textures = 0
    /\ created = <<>>
    /\ pass = NoPass
    /\ generator = NoGen
    /\ probe = NoProbe
    /\ calc = NoCalc
    /\ fields = [id \in FieldIds |-> 0]
    /\ views = 0
    /\ flows = <<>>
    /\ indices = NoIndices
    /\ field_textures = <<>>
    /\ run = NoRun
    /\ measured = <<>>
    /\ reading = NoReading
    /\ tracked = [e \in EntityIds |-> NoEntity]
    /\ active_regions = <<>>
    /\ triggered = <<>>
    /\ system = NoSystem
    /\ trigger = NoTrigger
    /\ layers = {}
    /\ layerCall = NoLayerCall

\* a panic while no session is open: the field under construction is lost
NoField(op, s) ==
    /\ phase' = "nofield"
    /\ size' = NoSize
    /\ label' = <<>>
    /\ texels' = <<>>
    /\ last' = Call(op, s, ZERO, ZERO, FALSE)

\* FlowField::zeroed(size)
Zeroed(s) ==
    /\ phase = "nofield"
    /\ \E p \in {SizeProduct(s)}, checks \in BOOLEAN :
         IF checks /\ p.ovf
         THEN NoField("zeroed", s)
         ELSE /\ phase' = "idle"
              /\ size' = s
              /\ label' = <<>>
              /\ texels' = ZeroTexels(WordVal(p.val))
              /\ last' = Call("zeroed", s, ZERO, ZERO, TRUE)
    /\ writes' = 0
    /\ exitPath' = "none"
    /\ lastGen' = NoGen
    /\ calls' = <<>>
    /\ UNCHANGED <<gsize, scratch>>
    /\ UNCHANGED gpuVars
    /\ UNCHANGED <<genVars, restVars>>

\* from_gen after zeroed(size) gave tx: field.modify().fill_from_gen(generator); the
\* guard is dropped at the end of the statement, or by the unwinding of a panic
FromGenFill(s, tx, f) ==
    IF f.panicked
    THEN NoField("from_gen", s) /\ calls' = f.calls /\ exitPath' = "panic"
    ELSE /\ phase' = "idle"
         /\ size' = s
         /\ label' = <<>>
         /\ texels' = DropFlush(tx, f.scratch)
         /\ last' = Call("from_gen", s, ZERO, ZERO, TRUE)
         /\ calls' = f.calls
         /\ exitPath' = "scope"

\* FlowField::from_gen(size, generator)
FromGen(s, g) ==
    /\ phase = "nofield"
    /\ \E p \in {SizeProduct(s)}, checks \in BOOLEAN :
         IF checks /\ p.ovf
         THEN NoField("from_gen", s) /\ calls' = <<>> /\ exitPath' = "none"
         ELSE \E tx \in {ZeroTexels(WordVal(p.val))} :
                \E f \in {Fill(s, Decompress(tx), g, checks)} :
                  FromGenFill(s, tx, f)
    /\ lastGen' = g
    /\ writes' = 0
    /\ UNCHANGED <<gsize, scratch>>
    /\ UNCHANGED gpuVars
    /\ UNCHANGED <<genVars, restVars>>

\* FlowField::with_label(self, label)
WithLabel(l) ==
    /\ phase = "idle"
    /\ label' = <<l>>
    /\ last' = Call("with_label", size, ZERO, ZERO, TRUE)
    /\ UNCHANGED <<phase, size, texels, gsize, scratch, lastGen, calls,
                   exitPath, writes>>
    /\ UNCHANGED gpuVars
    /\ UNCHANGED <<genVars, restVars>>

\* #[derive(Clone)]: the clone takes the place of the field (label, size and texels
\* are copied member by member)
Clone ==
    /\ phase = "idle"
    /\ label' = label
    /\ size' = size
    /\ texels' = texels
    /\ last' = Call("clone", size, ZERO, ZERO, TRUE)
    /\ UNCHANGED <<phase, gsize, scratch, lastGen, calls, exitPath, writes>>
    /\ UNCHANGED gpuVars
    /\ UNCHANGED <<genVars, restVars>>

\* FlowField::modify(&mut self)
Modify ==
    /\ phase = "idle"
    /\ phase' = "open"
    /\ gsize' = size
    /\ scratch' = Decompress(texels)
    /\ last' = Call("modify", size, ZERO, ZERO, TRUE)
    /\ exitPath' = "none"
    /\ UNCHANGED <<size, label, texels, lastGen, calls, writes>>
    /\ UNCHANGED gpuVars
    /\ UNCHANGED <<genVars, restVars>>

\* the field goes out of scope
DropField ==
    /\ phase = "idle"
    /\ phase' = "nofield"
    /\ size' = NoSize
    /\ label' = <<>>
    /\ texels' = <<>>
    /\ last' = Call("drop_field", size, ZERO, ZERO, TRUE)
    /\ lastGen' = NoGen
    /\ calls' = <<>>
    /\ exitPath' = "none"
    /\ writes' = 0
    /\ UNCHANGED <<gsize, scratch>>
    /\ UNCHANGED gpuVars
    /\ UNCHANGED <<genVars, restVars>>

\* FlowFieldGuard::get(&self, coords)
Get(c) ==
    /\ phase = "open"
    /\ \E at \in {ScratchPlace(gsize, c, Len(scratch), ChecksOn(gsize))} :
         IF at = 0
         THEN phase' = "unwinding" /\ last' = Call("get", c, ZERO, ZERO, FALSE)
         ELSE phase' = "open" /\ last' = Call("get", c, ZERO, scratch[at], TRUE)
    /\ UNCHANGED <<size, label, texels, gsize, scratch, lastGen, calls,
                   exitPath, writes>>
    /\ UNCHANGED gpuVars
    /\ UNCHANGED <<genVars, restVars>>

\* FlowFieldGuard::set(&mut self, coords, flow_vector)
Set(c, v) ==
    /\ phase = "open"
    /\ writes < MaxWrites
    /\ \E at \in {ScratchPlace(gsize, c, Len(scratch), ChecksOn(gsize))} :
         IF at = 0
         THEN /\ phase' = "unwinding"
              /\ scratch' = scratch
              /\ last' = Call("set", c, ZERO, ZERO, FALSE)
         ELSE /\ phase' = "open"
              /\ scratch' = [scratch EXCEPT ![at] = v]
              /\ last' = Call("set", c, v, ZERO, TRUE)
    /\ writes' = writes + 1
    /\ UNCHANGED <<size, label, texels, gsize, lastGen, calls, exitPath>>
    /\ UNCHANGED gpuVars
    /\ UNCHANGED <<genVars, restVars>>

\* *guard.get_mut(coords) = v: the reference returned by get_mut, written through
GetMut(c, v) ==
    /\ phase = "open"
    /\ writes < MaxWrites
    /\ \E at \in {ScratchPlace(gsize, c, Len(scratch), ChecksOn(gsize))} :
         IF at = 0
         THEN /\ phase' = "unwinding"
              /\ scratch' = scratch
              /\ last' = Call("get_mut", c, ZERO, ZERO, FALSE)
         ELSE /\ phase' = "open"
              /\ scratch' = [scratch EXCEPT ![at] = v]
              /\ last' = Call("get_mut", c, v, scratch[at], TRUE)
    /\ writes' = writes + 1
    /\ UNCHANGED <<size, label, texels, gsize, lastGen, calls, exitPath>>
    /\ UNCHANGED gpuVars
    /\ UNCHANGED <<genVars, restVars>>

\* FlowFieldGuard::fill_from_gen(&mut self, generator)
FillFromGen(g) ==
    /\ phase = "open"
    /\ writes < MaxWrites
    /\ \E f \in {Fill(gsize, scratch, g, ChecksOn(gsize))} :
         /\ scratch' = f.scratch
         /\ calls' = f.calls
         /\ phase' = IF f.panicked THEN "unwinding" ELSE "open"
         /\ last' = Call("fill_from_gen", gsize, ZERO, ZERO, ~f.panicked)
    /\ lastGen' = g
    /\ writes' = writes + 1
    /\ UNCHANGED <<size, label, texels, gsize, exitPath>>
    /\ UNCHANGED gpuVars
    /\ UNCHANGED <<genVars, restVars>>

\* a release that also writes the flushed texels into the texture of the mirror
ReleaseIntoMirror(path) ==
    /\ phase = "open"
    /\ phase' = "idle"
    /\ texels' = DropFlush(texels, scratch)
    /\ scratch' = <<>>
    /\ gsize' = NoSize
    /\ exitPath' = path
    /\ last' = Call("drop", size, ZERO, ZERO, TRUE)
    /\ mirror' = IF mirror # <<>> /\ mirror[1].size = gsize /\ mirror[1].valid
                 THEN <<[mirror[1] EXCEPT !.contents =
                           [c \in DOMAIN mirror[1].contents |->
                              CompressVec(scratch[1 + c[1] + gsize[1] * (c[2] + gsize[2] * c[3])])]]>>
                 ELSE mirror
    /\ UNCHANGED <<size, label, lastGen, calls, writes>>
    /\ UNCHANGED <<render, sampler, snapshot, textures, created, pass>>
    /\ UNCHANGED <<genVars, restVars>>

\* the guard goes out of scope, at the end of its scope or at an early return
Release(path) ==
    /\ phase = "open"
    /\ phase' = "idle"
    /\ texels' = DropFlush(texels, scratch)
    /\ scratch' = <<>>
    /\ gsize' = NoSize
    /\ exitPath' = path
    /\ last' = Call("drop", size, ZERO, ZERO, TRUE)
    /\ UNCHANGED <<size, label, lastGen, calls, writes>>
    /\ UNCHANGED gpuVars
    /\ UNCHANGED <<genVars, restVars>>

\* the guard is dropped by the unwinding of a panic of get, get_mut, set or fill_from_gen
Unwind ==
    /\ phase = "unwinding"
    /\ phase' = "idle"
    /\ texels' = DropFlush(texels, scratch)
    /\ scratch' = <<>>
    /\ gsize' = NoSize
    /\ exitPath' = "panic"
    /\ last' = Call("unwind", size, ZERO, ZERO, FALSE)
    /\ UNCHANGED <<size, label, lastGen, calls, writes>>
    /\ UNCHANGED gpuVars
    /\ UNCHANGED <<genVars, restVars>>

Next ==
    \/ \E s \in Sizes : Zeroed(s)
    \/ \E s \in Sizes, g \in Gens : FromGen(s, g)
    \/ \E l \in Labels : WithLabel(l)
    \/ Clone
    \/ Modify
    \/ DropField
    \/ \E c \in Probes(gsize) : Get(c)
    \/ \E c \in Probes(gsize), v \in Values : Set(c, v)
    \/ \E c \in Probes(gsize), v \in Values : GetMut(c, v)
    \/ \E g \in Gens : FillFromGen(g)
    \/ \E path \in {"scope", "early_return"} : Release(path)
    \/ Unwind

Spec == Init /\ [][Next]_vars

----------------------------------------------------------------------------
(* The GPU mirror: FlowFieldPlugin, GpuFlowField::prepare_asset, the sampler *)

\* textures the model lets the render device create
MaxTextures == 2

BYTES_PER_RAW_TEXEL == 8

\* the fields, values and generators of the runs that follow the mirror
RenderSizes == {<<1, 1, 2>>, <<1, 2, 1>>}

RenderValues == {New(<<2, 0, 0>>, 4)}

RenderGens == {[kind |-> "uniform", v |-> New(<<2, 0, 0>>, 4), n |-> 0]}

\* how the render device answers a request of this pass: it satisfies it, or it cannot
\* and the error handler panics, or it cannot and hands back an invalid resource
Backends == {"ok", "panic", "invalid"}

\* the SamplerDescriptor of init_flow_field_sampler
FlowFieldSamplerDescriptor ==
    [label |-> "flow_field_sampler",
     address_mode_u |-> "ClampToEdge",
     address_mode_v |-> "ClampToEdge",
     address_mode_w |-> "ClampToEdge",
     mag_filter |-> "Linear",
     min_filter |-> "Linear",
     mipmap_filter |-> "Linear"]

\* the texel coordinates of a texture of extent s
Extent(s) == {c \in (0..MaxExtent) \X (0..MaxExtent) \X (0..MaxExtent) :
                \A i \in 1..3 : c[i] < s[i]}

\* bytes_per_row: Some(source_asset.size.x * BYTES_PER_RAW_TEXEL)
BytesPerRow(s) == Mul(U32(s[1]), U32(BYTES_PER_RAW_TEXEL))

\* the place in the source buffer of the texel the copy puts at c: images of
\* rows_per_image rows, rows of bytes_per_row bytes, texels of 8 bytes
BufferPlace(c, rows, bpr) == (c[3] * rows + c[2]) * (bpr \div BYTES_PER_RAW_TEXEL) + c[1] + 1

\* a copy of the first row of the first image only
write_first_row(tx, s) ==
    [c \in {e \in Extent(s) : e[2] = 0 /\ e[3] = 0} |->
       tx[BufferPlace(c, s[2], WordVal(BytesPerRow(s).val))]]

\* render_queue.write_texture(texture, texels, layout, texture_extent) from origin zero
write_texture(tx, s) ==
    [c \in Extent(s) |-> tx[BufferPlace(c, s[2], WordVal(BytesPerRow(s).val))]]

\* Extent3d { width: size.x, height: size.y, depth_or_array_layers: size.z }
texture_extent(src) == src.size

\* a previous mirror reused whatever its size
ReusableWhateverSize(prev, src) == prev # <<>>

\* previous_asset.filter(|prev| prev.size == source_asset.size)
Reusable(prev, src) == prev # <<>> /\ prev[1].size = src.size

\* a mirror that records no label
GpuFlowFieldUnlabelled(src, texture, view, valid, contents) ==
    [label |-> <<>>, size |-> src.size, texture |-> texture,
     texture_view |-> view, valid |-> valid, contents |-> contents]

GpuFlowField(src, texture, view, valid, contents) ==
    [label |-> src.label, size |-> src.size, texture |-> texture,
     texture_view |-> view, valid |-> valid, contents |-> contents]

Pass(returned, failed, reused) ==
    [returned |-> returned, failed |-> failed, reused |-> reused]

\* the pass panics: nothing is returned and the render app goes down
PreparePanics(reused) ==
    /\ render' = "crashed"
    /\ pass' = Pass("none", TRUE, reused)
    /\ UNCHANGED <<mirror, textures, created>>

\* the builds in which the pass can run on src: with overflow checks (TRUE) only where
\* size.x * BYTES_PER_RAW_TEXEL overflows, without them (FALSE) always; where the
\* product fits the two builds do the same
PrepareBuilds(src) == IF BytesPerRow(src.size).ovf THEN BOOLEAN ELSE {FALSE}

\* size.x * BYTES_PER_RAW_TEXEL overflows in a build with overflow checks: the pass
\* panics after the texture and its view were made (made = 1) or taken over (made = 0),
\* before write_texture is called; nothing is returned and the render app goes down
PrepareOverflows(src, reused, made) ==
    /\ render' = "crashed"
    /\ textures' = textures + made
    /\ created' = IF made = 1 THEN Append(created, texture_extent(src)) ELSE created
    /\ pass' = Pass("none", TRUE, reused)
    /\ UNCHANGED mirror

\* Ok(GpuFlowField { .. }) after write_texture, installed in place of the previous mirror;
\* with a product size.x * BYTES_PER_RAW_TEXEL that overflows, in a build without
\* overflow checks
PrepareReturns(src, texture, view, valid, reused, made) ==
    /\ render' = render
    /\ textures' = textures + made
    /\ created' = IF made = 1 THEN Append(created, texture_extent(src)) ELSE created
    /\ mirror' = <<GpuFlowField(src, texture, view, valid,
                     IF valid /\ ~BytesPerRow(src.size).ovf
                     THEN write_texture(src.texels, src.size)
                     ELSE <<>>)>>
    /\ pass' = Pass("Ok", ~valid \/ BytesPerRow(src.size).ovf, reused)

\* FlowFieldPlugin::build: the sampler system is added when there is a render sub-app
Build(hasRenderApp) ==
    /\ render = "unbuilt"
    /\ render' = IF hasRenderApp THEN "startup" ELSE "norender"
    /\ UNCHANGED fieldVars
    /\ UNCHANGED <<genVars, restVars>>
    /\ UNCHANGED <<sampler, snapshot, mirror, textures, created, pass>>

\* the sampler system run by every frame of the render schedule, not once at startup
init_flow_field_sampler_every_frame ==
    /\ render \in {"startup", "running"}
    /\ Len(sampler) < MaxTextures
    /\ render' = "running"
    /\ sampler' = Append(sampler, FlowFieldSamplerDescriptor)
    /\ UNCHANGED fieldVars
    /\ UNCHANGED <<genVars, restVars>>
    /\ UNCHANGED <<snapshot, mirror, textures, created, pass>>

\* init_flow_field_sampler, run by the RenderStartup schedule
init_flow_field_sampler ==
    /\ render = "startup"
    /\ render' = "running"
    /\ sampler' = Append(sampler, FlowFieldSamplerDescriptor)
    /\ UNCHANGED fieldVars
    /\ UNCHANGED <<genVars, restVars>>
    /\ UNCHANGED <<snapshot, mirror, textures, created, pass>>

\* a snapshot taken whether or not the field is borrowed by an edit session
ExtractDuringSession ==
    /\ render = "running"
    /\ phase \in {"idle", "open"}
    /\ snapshot' = <<[label |-> label, size |-> size, texels |-> texels]>>
    /\ UNCHANGED fieldVars
    /\ UNCHANGED <<genVars, restVars>>
    /\ UNCHANGED <<render, sampler, mirror, textures, created, pass>>

\* RenderAssetPlugin<GpuFlowField>: the field is cloned into the render world
Extract ==
    /\ render = "running"
    /\ phase = "idle"
    /\ snapshot' = <<[label |-> label, size |-> size, texels |-> texels]>>
    /\ UNCHANGED fieldVars
    /\ UNCHANGED <<genVars, restVars>>
    /\ UNCHANGED <<render, sampler, mirror, textures, created, pass>>

\* GpuFlowField::prepare_asset(source_asset, _, (render_device, render_queue), previous_asset)
prepare_asset(src, backend) ==
    /\ render = "running"
    /\ IF Reusable(mirror, src)
       THEN IF ~mirror[1].valid /\ backend = "panic"
            THEN PreparePanics(TRUE)
            ELSE \E checks \in PrepareBuilds(src) :
                    IF checks
                    THEN PrepareOverflows(src, TRUE, 0)
                    ELSE PrepareReturns(src, mirror[1].texture, mirror[1].texture_view,
                                        mirror[1].valid, TRUE, 0)
       ELSE /\ textures < MaxTextures
            /\ IF backend = "panic"
               THEN PreparePanics(FALSE)
               ELSE \E checks \in PrepareBuilds(src) :
                       IF checks
                       THEN PrepareOverflows(src, FALSE, 1)
                       ELSE PrepareReturns(src, textures + 1, textures + 1,
                                           backend = "ok", FALSE, 1)
    /\ snapshot' = <<>>
    /\ sampler' = sampler
    /\ UNCHANGED fieldVars
    /\ UNCHANGED <<genVars, restVars>>

RenderNext ==
    \/ \E s \in RenderSizes : Zeroed(s)
    \/ \E l \in Labels : WithLabel(l)
    \/ Clone
    \/ Modify
    \/ DropField
    \/ \E c \in Extent(gsize), v \in RenderValues : Set(c, v)
    \/ \E c \in Extent(gsize), v \in RenderValues : GetMut(c, v)
    \/ \E g \in RenderGens : FillFromGen(g)
    \/ \E path \in {"scope"} : Release(path)
    \/ Unwind
    \/ \E hasRenderApp \in BOOLEAN : Build(hasRenderApp)
    \/ init_flow_field_sampler
    \/ Extract
    \/ \E backend \in Backends : snapshot # <<>> /\ prepare_asset(snapshot[1], backend)

RenderSpec == Init /\ [][RenderNext]_vars

\* fields beside the mirror whose row of texels is wider than a u32 counts in bytes:
\* 536870912 * BYTES_PER_RAW_TEXEL is 2^32; with an extent of 0 on y the field has no
\* texel, and zeroed makes it in every build
WideSizes == {<<1, 2, 1>>, <<536870912, 0, 1>>}

WideRenderNext ==
    \/ \E s \in WideSizes : Zeroed(s)
    \/ \E l \in Labels : WithLabel(l)
    \/ Clone
    \/ Modify
    \/ DropField
    \/ \E c \in Extent(gsize), v \in RenderValues : Set(c, v)
    \/ \E c \in Extent(gsize), v \in RenderValues : GetMut(c, v)
    \/ \E g \in RenderGens : FillFromGen(g)
    \/ \E path \in {"scope"} : Release(path)
    \/ Unwind
    \/ \E hasRenderApp \in BOOLEAN : Build(hasRenderApp)
    \/ init_flow_field_sampler
    \/ Extract
    \/ \E backend \in Backends : snapshot # <<>> /\ prepare_asset(snapshot[1], backend)

WideRenderSpec == Init /\ [][WideRenderNext]_vars

----------------------------------------------------------------------------
(* Generators on their own: tuples and transformed generators *)

\* the longest tuple the model builds, and the calls of generate it makes on one object
MaxTuple == 3
MaxCalls == 2

\* all_tuples!(impl_flow_field_generator, 0, 16, T, t)
TupleArityMax == 16

\* uniform generators of 8388608.0 and of 0.5 (f32 rounds their sums), the closure that
\* returns its position, and the closure that counts its calls
GenLeaves ==
    {[kind |-> "uniform", v |-> New(<<16777216, 0, 0>>, 16777216), n |-> 0],
     [kind |-> "uniform", v |-> New(<<1, 0, 0>>, 1), n |-> 0],
     [kind |-> "position", v |-> ZERO, n |-> 0],
     [kind |-> "counter", v |-> ZERO, n |-> 0]}

TupleArities == {k \in 0..MaxTuple : k <= TupleArityMax}

GenTuples == UNION {{Tuple(parts) : parts \in [1..k -> GenLeaves]} : k \in TupleArities}

\* Transform::from_translation(..).with_scale(..), scales being powers of two
GenTransforms ==
    {[translation |-> <<0, 0, 0>>, scale |-> <<2, 2, 2>>],
     [translation |-> <<2, -4, 6>>, scale |-> <<1, 2, 1>>]}

GenPositions == {<<0, 0, 0>>, <<1, -3, 4>>}

\* the multipliers 0.0 and -3.0
GenMultipliers == {0, -6}

\* a generator is built: a closure, a Uniform, or a tuple of them; a behaviour follows
\* one generator
MakeGenerator(g) ==
    /\ generator = NoGen
    /\ generator' = g
    /\ probe' = NoProbe
    /\ UNCHANGED <<fieldVars, gpuVars, restVars>>

\* generator.transformed(transform)
MakeTransformed(t) ==
    /\ generator # NoGen
    /\ generator.kind \notin {"transformed", "amplified"}
    /\ probe.k = 0
    /\ generator' = Transformed(generator, t)
    /\ probe' = [NoProbe EXCEPT !.transform = <<t>>]
    /\ UNCHANGED <<fieldVars, gpuVars, restVars>>

\* generator.amplified(multiplier), as the last step of building a generator
MakeAmplified(k) ==
    /\ generator # NoGen
    /\ generator.kind # "amplified"
    /\ probe.k = 0
    /\ generator' = Amplified(generator, k)
    /\ probe' = probe
    /\ UNCHANGED <<fieldVars, gpuVars, restVars>>

Probed(r, p) ==
    [transform |-> probe.transform, k |-> probe.k + 1, pos |-> p, out |-> r.out,
     trace |-> r.trace, before |-> generator]

\* generator.generate(position)
GenerateAt(p) ==
    /\ generator # NoGen
    /\ probe.k < MaxCalls
    /\ \E r \in {GenerateComposed(generator, p)} :
         /\ generator' = r.gen
         /\ probe' = Probed(r, p)
    /\ UNCHANGED <<fieldVars, gpuVars, restVars>>

GenNext ==
    \/ \E g \in GenLeaves \cup GenTuples : MakeGenerator(g)
    \/ \E t \in GenTransforms : MakeTransformed(t)
    \/ \E k \in GenMultipliers : MakeAmplified(k)
    \/ \E p \in GenPositions : GenerateAt(p)

GenSpec == Init /\ [][GenNext]_vars

----------------------------------------------------------------------------
(* Pure functions on their own: the sample position of a fill, FlowVector's accessors *)

\* the largest extent for which every coord + 0.5 is an f32: 2^23
ExactExtent == 2^23

\* extents of one axis: small ones, the last one below which f32 is exact, and larger ones
CalcExtents == {1, 2, 3, ExactExtent, ExactExtent + 1, 2 * ExactExtent + 2}

\* the coordinates tried on an axis of extent n: the two first and the two last
CalcCoords(n) == {c \in {0, 1, n - 2, n - 1} : 0 <= c /\ c < n}

\* velocities with components 0.0, 1.5, 6.0 and -12.0, momentum densities with
\* components 0.0, 6.0 and -12.0, and the densities 0.0, 1.0, 2.0, 3.0 and -2.0: the
\* products of the ones and the quotients of the others are multiples of 1/2
CalcComponents == {0, 3, 12, -24}

CalcVectors == {<<x, y, 0>> : x, y \in CalcComponents}

CalcMomenta == {<<x, y, 0>> : x, y \in CalcComponents \ {3}}

CalcDensities == {0, 2, 4, 6, -4}

\* one iteration of the loops of fill_from_gen, up to pos_vec3; the inputs of an
\* evaluation are drawn once, from the initial state
SamplePositionOf(gs, c) ==
    /\ calc.op = "none"
    /\ calc' = [NoCalc EXCEPT !.op = "pos_vec3", !.size = gs, !.coord = c,
                              !.pos = SamplePosition(c, gs)]
    /\ UNCHANGED <<fieldVars, gpuVars, genVars, regionVars, measureVars, laterVars>>

\* FlowVector::new(momentum_density, density)
NewVector(m, d) ==
    /\ calc.op = "none"
    /\ calc' = [NoCalc EXCEPT !.op = "new", !.made = "new", !.v = m, !.d = d,
                              !.fv = New(m, d)]
    /\ UNCHANGED <<fieldVars, gpuVars, genVars, regionVars, measureVars, laterVars>>

\* FlowVector::from_velocity(velocity, density)
FromVelocity(v, d) ==
    /\ calc.op = "none"
    /\ calc' = [NoCalc EXCEPT !.op = "from_velocity", !.made = "from_velocity", !.v = v,
                              !.d = d, !.fv = from_velocity(v, d)]
    /\ UNCHANGED <<fieldVars, gpuVars, genVars, regionVars, measureVars, laterVars>>

\* flow_vector.velocity()
Velocity ==
    /\ calc.op \in {"new", "from_velocity"}
    /\ calc' = [calc EXCEPT !.op = "velocity", !.vel = velocity(calc.fv)]
    /\ UNCHANGED <<fieldVars, gpuVars, genVars, regionVars, measureVars, laterVars>>

CalcNext ==
    \/ \E gs \in CalcExtents \X CalcExtents \X CalcExtents :
         \E c \in CalcCoords(gs[1]) \X CalcCoords(gs[2]) \X CalcCoords(gs[3]) :
           SamplePositionOf(gs, c)
    \/ \E m \in CalcMomenta, d \in CalcDensities : NewVector(m, d)
    \/ \E v \in CalcVectors, d \in CalcDensities : FromVelocity(v, d)
    \/ Velocity

CalcSpec == Init /\ [][CalcNext]_vars

----------------------------------------------------------------------------
(* A region's field textures: ExtractedRegionFields and prepare_flow_field_indices *)

\* the most flows in the region, and the most texture views created
MaxFlows == 2
MaxViews == 3

\* what insert and clear leave
Inserted(ok, id, index, ix, ft) ==
    [ok |-> ok, id |-> id, index |-> index, indices |-> ix, field_textures |-> ft]

\* the map ix with the key id set to n
MapInsert(ix, id, n) == [k \in DOMAIN ix \cup {id} |-> IF k = id THEN n ELSE ix[k]]

\* an insert that registers the id before it looks for the mirror
insert_registering_missing(ix, ft, fs, id) ==
    IF fs[id] = 0 THEN Inserted(FALSE, id, 0, MapInsert(ix, id, Len(ft)), ft)
    ELSE IF id \in DOMAIN ix THEN Inserted(TRUE, id, ix[id], ix, ft)
    ELSE Inserted(TRUE, id, Len(ft), MapInsert(ix, id, Len(ft)), Append(ft, fs[id]))

\* ExtractedRegionFields::insert(&mut self, fields, field_id)
insert(ix, ft, fs, id) ==
    IF fs[id] = 0 THEN Inserted(FALSE, id, 0, ix, ft)
    ELSE IF id \in DOMAIN ix THEN Inserted(TRUE, id, ix[id], ix, ft)
    ELSE Inserted(TRUE, id, Len(ft), MapInsert(ix, id, Len(ft)), Append(ft, fs[id]))

\* a clear that forgets the indices and keeps the texture views
clear_indices_only(ix, ft) == [indices |-> NoIndices, field_textures |-> ft]

\* ExtractedRegionFields::clear(&mut self)
clear(ix, ft) == [indices |-> NoIndices, field_textures |-> <<>>]

\* the flows a region can hold: up to MaxFlows flows, several of them may use one field
RegionFlows == UNION {[1..k -> FieldIds] : k \in 0..MaxFlows}

\* the region is extracted with the flows fl (ExtractedRegion { flows })
ExtractRegion(fl) ==
    /\ run.pc = "idle"
    /\ flows # fl
    /\ flows' = fl
    /\ UNCHANGED <<fields, views, indices, field_textures, run>>
    /\ UNCHANGED <<fieldVars, gpuVars, genVars, calcVars, measureVars, laterVars>>

\* a preparation pass installs a mirror with a new texture view for the field id
MirrorPrepared(id) ==
    /\ run.pc = "idle"
    /\ views < MaxViews
    /\ views' = views + 1
    /\ fields' = [fields EXCEPT ![id] = views + 1]
    /\ UNCHANGED <<flows, indices, field_textures, run>>
    /\ UNCHANGED <<fieldVars, gpuVars, genVars, calcVars, measureVars, laterVars>>

\* prepare_flow_field_indices starts on the region: field_indices.clear()
Clear ==
    /\ run.pc = "idle"
    /\ \E r \in {clear(indices, field_textures)} :
         /\ indices' = r.indices
         /\ field_textures' = r.field_textures
    /\ run' = [run EXCEPT !.pc = "insert", !.todo = flows, !.returned = "none", !.id = "",
                          !.call = [NoCall EXCEPT !.op = "clear"]]
    /\ UNCHANGED <<fields, views, flows>>
    /\ UNCHANGED <<fieldVars, gpuVars, genVars, calcVars, measureVars, laterVars>>

\* prepare_flow_field_indices after the call field_indices.insert(..)? that gave r
AfterInsert(r) ==
    [pc |-> IF r.ok THEN "insert" ELSE "idle",
     todo |-> IF r.ok THEN Tail(run.todo) ELSE <<>>,
     returned |-> IF r.ok THEN "none" ELSE "err",
     id |-> IF r.ok THEN "" ELSE r.id,
     call |-> [op |-> "insert", id |-> r.id, ok |-> r.ok, index |-> r.index],
     missed |-> IF r.ok THEN run.missed ELSE run.missed \cup {r.id}]

\* field_indices.insert(fields.as_ref(), flow.field_id)? for the next flow
Insert ==
    /\ run.pc = "insert"
    /\ run.todo # <<>>
    /\ \E r \in {insert(indices, field_textures, fields, Head(run.todo))} :
         /\ indices' = r.indices
         /\ field_textures' = r.field_textures
         /\ run' = AfterInsert(r)
    /\ UNCHANGED <<fields, views, flows>>
    /\ UNCHANGED <<fieldVars, gpuVars, genVars, calcVars, measureVars, laterVars>>

\* prepare_flow_field_indices returns Ok(()) after the last flow
Finish ==
    /\ run.pc = "insert"
    /\ run.todo = <<>>
    /\ run' = [run EXCEPT !.pc = "idle", !.returned = "ok"]
    /\ UNCHANGED <<fields, views, flows, indices, field_textures>>
    /\ UNCHANGED <<fieldVars, gpuVars, genVars, calcVars, measureVars, laterVars>>

RegionNext ==
    \/ \E fl \in RegionFlows : ExtractRegion(fl)
    \/ \E id \in FieldIds : MirrorPrepared(id)
    \/ Clear
    \/ Insert
    \/ Finish

RegionSpec == Init /\ [][RegionNext]_vars

----------------------------------------------------------------------------
(* Measured<M>: a measured value that may not be there yet *)

\* measured values (M::Value = FlowVector), the zero vector among them
MeasuredValues == {<<x, y, 0, d>> : x \in {0, 2, -2}, y, d \in {0, 2}}

\* a value() that gives the default value where nothing has been measured
value_or_default(m) ==
    IF m = <<>> THEN [kind |-> "ok", x |-> ZERO] ELSE [kind |-> "ok", x |-> m[1]]

\* Measured::value(&self): self.value.ok_or(MissingMeasuredValueError)
value(m) ==
    IF m = <<>> THEN [kind |-> "MissingMeasuredValueError", x |-> ZERO]
    ELSE [kind |-> "ok", x |-> m[1]]

\* Measured::default()
MeasuredDefault ==
    /\ measured' = <<>>
    /\ UNCHANGED reading
    /\ UNCHANGED <<fieldVars, gpuVars, genVars, calcVars, regionVars, laterVars>>

\* the value x is stored: Measured { value: Some(x) }
MeasuredStored(x) ==
    /\ measured' = <<x>>
    /\ UNCHANGED reading
    /\ UNCHANGED <<fieldVars, gpuVars, genVars, calcVars, regionVars, laterVars>>

\* measured.value()
Value ==
    /\ reading' = value(measured)
    /\ UNCHANGED measured
    /\ UNCHANGED <<fieldVars, gpuVars, genVars, calcVars, regionVars, laterVars>>

MeasureNext ==
    \/ MeasuredDefault
    \/ \E x \in MeasuredValues : MeasuredStored(x)
    \/ Value

MeasureSpec == Init /\ [][MeasureNext]_vars

----------------------------------------------------------------------------
(* Activity tracking (src/src/activity.rs): ActiveRegion, TrackActivity,   *)
(* Active, update_activities and the command SetActiveMany                 *)

MaxRegions == 2

\* the boxes tracked entities are spawned with
BoxOrigin == Aabb(<<0, 0, 0>>, <<1, 1, 1>>)
BoxEast == Aabb(<<4, 0, 0>>, <<1, 1, 1>>)
BoxNorth == Aabb(<<0, 4, 0>>, <<1, 1, 1>>)
EntityBoxes == {BoxOrigin, BoxEast}

\* the boxes update_active_region_aabbs leaves on an ActiveRegion
RegionBoxes == {BoxOrigin, BoxNorth}

\* Aabb::min(): center - half_extents
AabbMin(a) == [i \in 1..3 |-> a.center[i] - a.half_extents[i]]

\* Aabb::max(): center + half_extents
AabbMax(a) == [i \in 1..3 |-> a.center[i] + a.half_extents[i]]

\* Vec3A::cmplt(self, rhs): the mask of the lanes where self < rhs
cmplt(u, v) == [i \in 1..3 |-> u[i] < v[i]]

\* BVec3A::all()
all(m) == \A i \in 1..3 : m[i]

\* fn aabbs_intersect(a: Aabb, b: Aabb) -> bool
aabbs_intersect(a, b) ==
    all(cmplt(AabbMin(a), AabbMax(b))) \/ all(cmplt(AabbMin(b), AabbMax(a)))

\* the events, with the Active marker the entity carries when the event is triggered
Activate(e, m) == [event |-> "Activate", entity |-> e, active |-> TRUE, marked |-> m]
Deactivate(e, m) == [event |-> "Deactivate", entity |-> e, active |-> FALSE, marked |-> m]
SetActive(e, a, m) == [event |-> "SetActive", entity |-> e, active |-> a, marked |-> m]

\* active_entities.0.clear() on every region
ClearActiveEntities(regs) ==
    [i \in 1..Len(regs) |-> [regs[i] EXCEPT !.active_entities = <<>>]]

\* one pass of the body of the loop over the regions, for the entity e (its Aabb box,
\* its Has<Active> was), at region i, where the call of aabbs_intersect gave hit and
\* is_active has become now
RegionStep(e, was, i, hit, now, st) ==
    [regions |-> IF now
                 THEN [st.regions EXCEPT ![i].active_entities = Append(@, e)]
                 ELSE st.regions,
     activated |-> IF now # was /\ now THEN Append(st.activated, e) ELSE st.activated,
     deactivated |-> IF now # was /\ ~now THEN Append(st.deactivated, e)
                     ELSE st.deactivated,
     reported |-> Append(st.reported, [entity |-> e, region |-> i, result |-> hit])]

\* for (region_aabb, mut active_entities) in params.active_regions.iter_mut()
RECURSIVE ForEachRegion(_, _, _, _, _, _)
ForEachRegion(e, box, was, i, is_active, st) ==
    IF i > Len(st.regions) THEN st
    ELSE ForEachRegion(e, box, was, i + 1,
                       is_active \/ aabbs_intersect(box, st.regions[i].aabb),
                       RegionStep(e, was, i, aabbs_intersect(box, st.regions[i].aabb),
                                  is_active \/ aabbs_intersect(box, st.regions[i].aabb),
                                  st))

\* the orders in which a query may visit the entities of the set S: the order follows
\* the tables bevy_ecs keeps the entities in (an entity changes table when it gets or
\* loses Active), not the ids, so every order is allowed for
Orders(S) ==
    {o \in [1..Cardinality(S) -> S] : \A i, j \in 1..Cardinality(S) : o[i] = o[j] => i = j}

\* params.tracked_entities.iter_mut().for_each(..), the query visiting the tracked
\* entities in the order given, from its entry k on
RECURSIVE ForEachTracked(_, _, _, _)
ForEachTracked(tr, order, k, st) ==
    IF k > Len(order) THEN st
    ELSE ForEachTracked(tr, order, k + 1,
                        ForEachRegion(order[k], tr[order[k]].aabb, tr[order[k]].active,
                                      1, FALSE, st))

\* activated.drain().for_each(..): Activate, then SetActive, for each entry
RECURSIVE DrainActivated(_, _, _)
DrainActivated(activated, i, tr) ==
    IF i > Len(activated) THEN <<>>
    ELSE <<Activate(activated[i], tr[activated[i]].active),
           SetActive(activated[i], TRUE, tr[activated[i]].active)>>
         \o DrainActivated(activated, i + 1, tr)

\* world.try_insert_batch_if_new(insert_active_batch.drain(..))
InsertBatchIfNew(activated, tr) ==
    [e \in EntityIds |->
        IF \E i \in 1..Len(activated) : activated[i] = e
        THEN [tr[e] EXCEPT !.active = TRUE] ELSE tr[e]]

\* deactivated.drain().for_each(..): Deactivate, then SetActive, then remove::<Active>()
RECURSIVE DrainDeactivated(_, _, _)
DrainDeactivated(deactivated, i, st) ==
    IF i > Len(deactivated) THEN st
    ELSE DrainDeactivated(deactivated, i + 1,
            [tracked |-> [st.tracked EXCEPT ![deactivated[i]].active = FALSE],
             triggered |-> st.triggered \o
                <<Deactivate(deactivated[i], st.tracked[deactivated[i]].active),
                  SetActive(deactivated[i], FALSE, st.tracked[deactivated[i]].active)>>])

\* the loops of update_activities over the world (tr, regs), the tracked entities
\* visited in the order given: the region lists, the two locals and the calls of
\* aabbs_intersect
Scanned(tr, regs, order) ==
    ForEachTracked(tr, order, 1, [regions |-> ClearActiveEntities(regs),
                                  activated |-> <<>>, deactivated |-> <<>>,
                                  reported |-> <<>>])

\* the two drains of update_activities after the loops gave sc
Drained(tr, sc) ==
    DrainDeactivated(sc.deactivated, 1,
                     [tracked |-> InsertBatchIfNew(sc.activated, tr),
                      triggered |-> DrainActivated(sc.activated, 1, tr)])

\* a TrackActivity entity is spawned with the Aabb box
Spawn(e, box) ==
    /\ tracked[e].life = "unspawned"
    /\ \A d \in EntityIds : d < e => tracked[d].life # "unspawned"
    /\ tracked' = [tracked EXCEPT ![e] = [life |-> "alive", aabb |-> box, active |-> FALSE]]
    /\ triggered' = <<>>
    /\ system' = NoSystem
    /\ UNCHANGED active_regions
    /\ UNCHANGED <<fieldVars, gpuVars, genVars, calcVars, regionVars, measureVars,
                   triggerVars, layerVars>>

\* a tracked entity is despawned
Despawn(e) ==
    /\ tracked[e].life = "alive"
    /\ tracked' = [tracked EXCEPT ![e] = [life |-> "despawned", aabb |-> NoAabb,
                                          active |-> FALSE]]
    /\ triggered' = <<>>
    /\ system' = NoSystem
    /\ UNCHANGED active_regions
    /\ UNCHANGED <<fieldVars, gpuVars, genVars, calcVars, regionVars, measureVars,
                   triggerVars, layerVars>>

\* an ActiveRegion is spawned: ActiveEntities::default(), and the Aabb box
SpawnRegion(box) ==
    /\ Len(active_regions) < MaxRegions
    /\ active_regions' = Append(active_regions, [aabb |-> box, active_entities |-> <<>>])
    /\ triggered' = <<>>
    /\ system' = NoSystem
    /\ UNCHANGED tracked
    /\ UNCHANGED <<fieldVars, gpuVars, genVars, calcVars, regionVars, measureVars,
                   triggerVars, layerVars>>

\* the ActiveRegion at place i of the query is despawned
DespawnRegion(i) ==
    /\ i \in 1..Len(active_regions)
    /\ active_regions' = [j \in 1..(Len(active_regions) - 1) |->
                            IF j < i THEN active_regions[j] ELSE active_regions[j + 1]]
    /\ triggered' = <<>>
    /\ system' = NoSystem
    /\ UNCHANGED tracked
    /\ UNCHANGED <<fieldVars, gpuVars, genVars, calcVars, regionVars, measureVars,
                   triggerVars, layerVars>>

\* fn update_activities(world, params, activated, insert_active_batch, deactivated)
update_activities ==
    /\ \E order \in Orders({e \in EntityIds : tracked[e].life = "alive"}) :
       \E sc \in {Scanned(tracked, active_regions, order)} :
         /\ active_regions' = sc.regions
         /\ tracked' = Drained(tracked, sc).tracked
         /\ triggered' = Drained(tracked, sc).triggered
         /\ system' = [name |-> "update_activities",
                       was |-> [e \in EntityIds |-> tracked[e].active],
                       reported |-> sc.reported, entities |-> <<>>, active |-> FALSE]
    /\ UNCHANGED <<fieldVars, gpuVars, genVars, calcVars, regionVars, measureVars,
                   triggerVars, layerVars>>

\* the commands applied: every list of at most MaxBatch entity ids, with either flag
MaxBatch == 2
Batches == UNION {[1..n -> EntityIds] : n \in 0..MaxBatch}

\* a SetActiveMany::apply that gives up at the first entity that no longer exists
RECURSIVE apply_until_missing(_, _, _, _)
apply_until_missing(entities, active, i, st) ==
    IF i > Len(entities) THEN st
    ELSE IF st.tracked[entities[i]].life # "alive" THEN st
    ELSE IF st.tracked[entities[i]].active = active
    THEN apply_until_missing(entities, active, i + 1, st)
    ELSE apply_until_missing(entities, active, i + 1,
            [tracked |-> [st.tracked EXCEPT ![entities[i]].active = active],
             triggered |-> st.triggered \o
                <<SetActive(entities[i], active, active),
                  IF active THEN Activate(entities[i], active)
                  ELSE Deactivate(entities[i], active)>>])

\* impl Command for SetActiveMany: fn apply(self, world: &mut World), from entry i on
RECURSIVE apply(_, _, _, _)
apply(entities, active, i, st) ==
    IF i > Len(entities) THEN st
    ELSE IF st.tracked[entities[i]].life # "alive"
    THEN apply(entities, active, i + 1, st)
    ELSE IF st.tracked[entities[i]].active = active
    THEN apply(entities, active, i + 1, st)
    ELSE apply(entities, active, i + 1,
            [tracked |-> [st.tracked EXCEPT ![entities[i]].active = active],
             triggered |-> st.triggered \o
                <<SetActive(entities[i], active, active),
                  IF active THEN Activate(entities[i], active)
                  ELSE Deactivate(entities[i], active)>>])

\* the command SetActiveMany { entities, active } is applied to the world
SetActiveMany(entities, active) ==
    /\ \A i \in 1..Len(entities) : tracked[entities[i]].life # "unspawned"
    /\ \E st \in {apply(entities, active, 1, [tracked |-> tracked, triggered |-> <<>>])} :
         /\ tracked' = st.tracked
         /\ triggered' = st.triggered
    /\ system' = [name |-> "SetActiveMany",
                  was |-> [e \in EntityIds |-> tracked[e].active],
                  reported |-> <<>>, entities |-> entities, active |-> active]
    /\ UNCHANGED active_regions
    /\ UNCHANGED <<fieldVars, gpuVars, genVars, calcVars, regionVars, measureVars,
                   triggerVars, layerVars>>

ActivityNext ==
    \/ \E e \in EntityIds, box \in EntityBoxes : Spawn(e, box)
    \/ \E e \in EntityIds : Despawn(e)
    \/ \E box \in RegionBoxes : SpawnRegion(box)
    \/ \E i \in 1..MaxRegions : DespawnRegion(i)
    \/ update_activities

ActivitySpec == Init /\ [][ActivityNext]_vars

\* the command on a world of tracked entities (nothing in the crate queues it)
CommandNext ==
    \/ \E e \in EntityIds, box \in EntityBoxes : Spawn(e, box)
    \/ \E e \in EntityIds : Despawn(e)
    \/ \E entities \in Batches, active \in BOOLEAN : SetActiveMany(entities, active)

CommandSpec == Init /\ [][CommandNext]_vars

----------------------------------------------------------------------------
(* Trigger<M> (src/src/vane/measure.rs): a range of measured scalars *)

\* the scalars the bounds are drawn from (f32 values that are small integers)
TriggerScalars == {-1, 0, 1, 2, 3}

\* every Bound<Scalar<M::Value>> over those scalars
TriggerBounds ==
    {Unbounded} \cup {Included(x) : x \in TriggerScalars}
                \cup {Excluded(x) : x \in TriggerScalars}

\* every range handed to from_bounds, by its start_bound() and end_bound()
TriggerRanges == [start : TriggerBounds, end : TriggerBounds]

\* Trigger::from_bounds(range)
from_bounds(range) == [start |-> range.start, end |-> range.start]

\* <Trigger<M> as RangeBounds>::start_bound(&self)
start_bound(t) == t.start

\* <Trigger<M> as RangeBounds>::end_bound(&self)
end_bound(t) == t.end

\* Trigger::from_bounds(range) is called
FromBounds(range) ==
    /\ ~trigger.made
    /\ trigger' = [made |-> TRUE, range |-> range,
                   start |-> from_bounds(range).start, end |-> from_bounds(range).end]
    /\ UNCHANGED <<fieldVars, gpuVars, genVars, calcVars, regionVars, measureVars,
                   activityVars, layerVars>>

TriggerNext == \E range \in TriggerRanges : FromBounds(range)

TriggerSpec == Init /\ [][TriggerNext]_vars

----------------------------------------------------------------------------
(* FlowLayers (src/src/flow.rs): a u32 mask, held as the set of the bit    *)
(* positions 0..31 whose bit is 1, addressed by a Layer (u8)               *)

\* the layers handed to the calls: in and out of the width of the mask, and u8::MAX
LayerInputs == {0, 1, 31, 32, 33, 255}

\* the masks handed to intersects as other
OtherMasks == {{}, {0}, {1}, {31}, {0, 31}, 0..31}

\* how the crate is built: with overflow checks (a debug build) or without (a release
\* build); an overflowing shift panics in the first and masks its amount in the second
Builds == {"checked", "unchecked"}

\* 1 << layer, on u32: whether it completes in the build, and its value
Shl1(l, build) ==
    IF l < 32 THEN [completed |-> TRUE, bits |-> {l}]
    ELSE IF build = "checked" THEN [completed |-> FALSE, bits |-> {}]
    ELSE [completed |-> TRUE, bits |-> {l % 32}]

\* FlowLayers::all(): Self(!0)
FlowLayersAll == 0..31

\* FlowLayers::none(): Self(0)
FlowLayersNone == {}

\* FlowLayers::layer(layer): Self(1 << layer)
layer(l, build) == Shl1(l, build)

\* FlowLayers::with(self, layer): self.0 |= 1 << layer
with(self, l, build) ==
    [completed |-> Shl1(l, build).completed, bits |-> self \cup Shl1(l, build).bits]

\* FlowLayers::without(self, layer): self.0 &= !(1 << layer)
without(self, l, build) ==
    [completed |-> Shl1(l, build).completed,
     bits |-> IF Shl1(l, build).completed THEN self \ Shl1(l, build).bits ELSE self]

\* FlowLayers::intersects(self, other): self.0 & other.0 != 0
intersects(self, other) == (self \cap other) # {}

\* a call that builds a mask: its record, and the mask kept if it completed
LayerMade(op, l, build, res) ==
    /\ layerCall' = [op |-> op, layer |-> l, build |-> build, completed |-> res.completed,
                     self |-> layers, other |-> {}, out |-> res.bits, hit |-> FALSE]
    /\ layers' = IF res.completed THEN res.bits ELSE layers
    /\ UNCHANGED <<fieldVars, gpuVars, genVars, calcVars, regionVars, measureVars,
                   activityVars, triggerVars>>

\* FlowLayers::all()
All == LayerMade("all", 0, "checked", [completed |-> TRUE, bits |-> FlowLayersAll])

\* FlowLayers::none()
None == LayerMade("none", 0, "checked", [completed |-> TRUE, bits |-> FlowLayersNone])

\* FlowLayers::layer(l)
Layer(l, build) == LayerMade("layer", l, build, layer(l, build))

\* layers.with(l)
With(l, build) == LayerMade("with", l, build, with(layers, l, build))

\* layers.without(l)
Without(l, build) == LayerMade("without", l, build, without(layers, l, build))

\* layers.intersects(other)
Intersects(other) ==
    /\ layerCall' = [op |-> "intersects", layer |-> 0, build |-> "checked",
                     completed |-> TRUE, self |-> layers, other |-> other,
                     out |-> layers, hit |-> intersects(layers, other)]
    /\ UNCHANGED layers
    /\ UNCHANGED <<fieldVars, gpuVars, genVars, calcVars, regionVars, measureVars,
                   activityVars, triggerVars>>

LayerNext ==
    \/ All
    \/ None
    \/ \E l \in LayerInputs, build \in Builds : Layer(l, build)
    \/ \E l \in LayerInputs, build \in Builds : With(l, build)
    \/ \E l \in LayerInputs, build \in Builds : Without(l, build)
    \/ \E other \in OtherMasks : Intersects(other)

LayerSpec == Init /\ [][LayerNext]_vars

----------------------------------------------------------------------------
(* Properties *)

\* the coordinate c is in range of the size s: 0 <= c.i < size.i on each axis
InRange(c, s) == \A i \in 1..3 : c[i] < s[i]

\* the product size.x * size.y * size.z, as a mathematical integer, is n
ProductIs(s, n) ==
    \E p \in {SizeProduct(s)} : ~p.ovf /\ WordSmall(p.val) /\ WordVal(p.val) = n

\* a session read of c in the scratch buffer sc completes and returns v
Reads(gs, sc, c, v) ==
    \E at \in {ScratchPlace(gs, c, Len(sc), ChecksOn(gs))} : at # 0 /\ sc[at] = v

\* what a session read of c returns, or <<>> when it fails
ReadAt(sc, at) == IF at = 0 THEN <<>> ELSE sc[at]

\* what a session read of c returns, or <<>> when it fails
ReadOf(gs, sc, c) == ReadAt(sc, ScratchPlace(gs, c, Len(sc), ChecksOn(gs)))

\* v as it is after one trip through the half-precision texel storage
HalfRounded(v) == DecompressVec(CompressVec(v))

\* the in-range coordinates among those the model probes
InRangeProbes(gs) == {c \in Probes(gs) : InRange(c, gs)}

\* this step ends an edit session
SessionEnds == phase \in {"open", "unwinding"} /\ phase' \notin {"open", "unwinding"}

\* this step is a call of set in an open session
SetStep == phase = "open" /\ last'.op = "set" /\ writes' = writes + 1

\* C1: whenever an edit session ends, by the end of its scope, by an early return or
\* by a panic propagating out of get, get_mut, set or fill_from_gen, the field is
\* accessible again and every channel of every texel is the half-precision compression
\* of the scratch buffer as it was at the release.
FlushOnEveryExit ==
    [][SessionEnds =>
         /\ phase' = "idle"
         /\ exitPath' \in {"scope", "early_return", "panic"}
         /\ Len(texels') = Len(scratch)
         /\ \A i \in 1..Len(scratch) : \A ch \in Chan :
              texels'[i][ch] = F16FromF32(scratch[i][ch])]_vars

\* a session that had written a non-zero vector was ended by a panic, and the field
\* holds what was written
FlushedAfterPanic ==
    /\ phase = "idle"
    /\ exitPath = "panic"
    /\ writes > 0
    /\ \E i \in 1..Len(texels) : texels[i] # ZeroTexel

\* C2: for every in-range coordinate c and every v, set(c, v) completes and a get(c)
\* that follows it immediately in the same session returns exactly v.
SetThenGetReturnsValue ==
    [][/\ (SetStep /\ InRange(last'.c, gsize)) => last'.ok
       /\ (/\ last.op = "set" /\ last.ok /\ InRange(last.c, gsize)
           /\ phase = "open" /\ last'.op = "get" /\ last'.c = last.c)
          => (last'.ok /\ last'.out = last.v)]_vars

\* C3: for every in-range coordinate the flat index is below the length of the scratch
\* buffer, and a get, get_mut or set at an in-range coordinate completes.
InRangeAccessValid ==
    /\ phase = "open" =>
         \A c \in InRangeProbes(gsize) :
           ScratchPlace(gsize, c, Len(scratch), ChecksOn(gsize)) # 0
    /\ (/\ phase \in {"open", "unwinding"}
        /\ last.op \in {"get", "get_mut", "set"}
        /\ InRange(last.c, gsize)) => last.ok

\* C4: within a session, a set at an in-range coordinate c leaves what get(c') returns
\* unchanged for every in-range coordinate c' other than c.
SetLeavesOthersUnchanged ==
    [][(SetStep /\ last'.ok /\ InRange(last'.c, gsize)) =>
         \A c \in InRangeProbes(gsize) \ {last'.c} :
           ReadOf(gsize, scratch', c) = ReadOf(gsize, scratch, c)]_vars

\* C5: whenever a field exists its texel array has size.x * size.y * size.z elements,
\* and while a session is open the scratch buffer has as many elements as the array.
TexelCountIsProduct ==
    /\ phase # "nofield" => ProductIs(size, Len(texels))
    /\ phase \in {"open", "unwinding"} => Len(scratch) = Len(texels)

\* C6: zeroed(size) completes for every size and gives size.x * size.y * size.z texels
\* (the mathematical product), every one the zero vector; none for a zero extent.
ZeroedAllocatesProduct ==
    last.op = "zeroed" =>
      /\ last.ok
      /\ phase = "idle"
      /\ ProductIs(last.c, Len(texels))
      /\ \A i \in 1..Len(texels) : texels[i] = ZeroTexel
      /\ (\E i \in 1..3 : last.c[i] = 0) => texels = <<>>

\* C7: in a session on a field made by zeroed and not written since, a read of any
\* in-range coordinate, the maximal corner included, returns the zero vector.
ZeroedReadsZero ==
    (/\ phase \in {"open", "unwinding"}
     /\ last.op = "get"
     /\ lastGen = NoGen
     /\ writes = 0
     /\ InRange(last.c, gsize)) => (last.ok /\ last.out = ZERO)

\* C8: for every size with all extents at least 1 and every half-representable v,
\* from_gen(size, uniform(v)) completes with every texel holding v, and a session read
\* of an in-range coordinate of that field returns v; for size (2,2,2) and
\* v = new((1,0,0), 2.0) that is momentum_density (1,0,0) and density 2.0.
FromGenUniformReadsValue ==
    /\ (/\ last.op = "from_gen"
        /\ lastGen.kind = "uniform"
        /\ HalfRounded(lastGen.v) = lastGen.v
        /\ \A i \in 1..3 : last.c[i] >= 1)
       => /\ last.ok
          /\ phase = "idle"
          /\ \A i \in 1..Len(texels) : DecompressVec(texels[i]) = lastGen.v
    /\ (/\ phase \in {"open", "unwinding"}
        /\ last.op = "get"
        /\ lastGen.kind = "uniform"
        /\ HalfRounded(lastGen.v) = lastGen.v
        /\ writes = 0
        /\ InRange(last.c, gsize)) => (last.ok /\ last.out = lastGen.v)

\* the generator g as it is after the first k of the calls cl
RECURSIVE GenAfter(_, _, _, _)
GenAfter(g, cl, gs, k) ==
    IF k = 0 THEN g
    ELSE Generate(GenAfter(g, cl, gs, k - 1), SamplePosition(cl[k], gs)).gen

\* what the generator g returned at the k-th of the calls cl
Produced(g, cl, gs, k) ==
    Generate(GenAfter(g, cl, gs, k - 1), SamplePosition(cl[k], gs)).out

\* C9: fill_from_gen terminates having called the generator once for each in-range
\* coordinate, none repeated and none skipped, and get(c) then returns what the
\* generator produced for c.
FillVisitsEachOnce ==
    (phase \in {"open", "unwinding"} /\ last.op = "fill_from_gen") =>
      /\ last.ok
      /\ ProductIs(gsize, Len(calls))
      /\ \A j, k \in 1..Len(calls) : calls[j] = calls[k] => j = k
      /\ \A k \in 1..Len(calls) : InRange(calls[k], gsize)
      /\ \A k \in 1..Len(calls) :
           Reads(gsize, scratch, calls[k], Produced(lastGen, calls, gsize, k))

\* C10: when a session is closed after set(c, v), a read of c in a new session returns
\* the half-precision rounding of each channel of v; and a set at another coordinate
\* does not change what a read of c returns after the session is closed and reopened.
ReopenReadsRounded ==
    [][/\ (last.op = "set" /\ InRange(last.c, gsize) /\ SessionEnds)
          => /\ last.ok
             /\ Reads(gsize, Decompress(texels'), last.c, HalfRounded(last.v))
       /\ (SetStep /\ last'.ok /\ InRange(last'.c, gsize))
          => \A c \in InRangeProbes(gsize) \ {last'.c} :
               \E at \in {ScratchPlace(gsize, c, Len(scratch), ChecksOn(gsize))} :
                 at # 0 => HalfRounded(scratch'[at]) = HalfRounded(scratch[at])]_vars

\* the size s has a zero extent
ZeroExtent(s) == \E i \in 1..3 : s[i] = 0

\* C12: for a size with a zero extent, zeroed and from_gen give a field with an empty
\* texel array; fill_from_gen on it calls the generator for no position, touches no
\* element, does not fail, and the array is still empty after the release.
ZeroExtentFillIsNoOp ==
    /\ (last.op \in {"zeroed", "from_gen"} /\ ZeroExtent(last.c))
       => (last.ok /\ phase = "idle" /\ texels = <<>> /\ calls = <<>>)
    /\ (phase \in {"open", "unwinding"} /\ last.op = "fill_from_gen" /\ ZeroExtent(gsize))
       => (last.ok /\ calls = <<>> /\ scratch = <<>>)
    /\ (phase \in {"idle", "open", "unwinding"} /\ ZeroExtent(size)) => texels = <<>>

\* C13: a get, get_mut or set at a coordinate with c.x >= size.x or c.y >= size.y or
\* c.z >= size.z fails, and leaves the scratch buffer as it was.
OutOfRangeFailsFast ==
    [][(/\ phase = "open"
        /\ last' # last
        /\ last'.op \in {"get", "get_mut", "set"}
        /\ ~InRange(last'.c, gsize))
       => (~last'.ok /\ phase' = "unwinding" /\ scratch' = scratch)]_vars

\* an edit session is open: its guard holds the exclusive borrow of the field
SessionOpen == phase \in {"open", "unwinding"}

\* C11: a field has at most one edit session at a time, and while the session is open
\* and unflushed nothing else reaches the field's storage: no other modify, no clone,
\* no relabelling or drop of the field, and no GPU snapshot of it.
OneSessionNoSharedAccess ==
    [][SessionOpen =>
         /\ last' # last => last'.op \notin {"modify", "clone", "with_label", "drop_field"}
         /\ snapshot' # snapshot => snapshot' = <<>>
         /\ SessionOpen' => (texels' = texels /\ size' = size /\ label' = label
                             /\ gsize' = gsize /\ Len(scratch') = Len(scratch))]_vars

\* a session with an unflushed write is open while the render world holds a mirror of
\* the field and the field has been edited since
OpenSessionBesideMirror ==
    /\ phase = "open"
    /\ last.op = "set"
    /\ last.ok
    /\ mirror # <<>>
    /\ render = "running"

\* this step is a preparation pass: prepare_asset takes the waiting snapshot
PassStep == snapshot # <<>> /\ snapshot' = <<>>

\* the previous mirror has the size of the snapshot on all three extents
SameSizeAsPrevious ==
    mirror # <<>> /\ \A i \in 1..3 : mirror[1].size[i] = snapshot[1].size[i]

\* C14: a preparation pass returns the texture and the view of the previous mirror if
\* and only if there is a previous mirror and its size equals the size of the source;
\* otherwise the texture and the view it returns are fresh ones, distinct from the
\* previous ones.
ReuseIffSameSize ==
    [][(PassStep /\ pass'.returned = "Ok") =>
         IF SameSizeAsPrevious
         THEN /\ pass'.reused
              /\ mirror'[1].texture = mirror[1].texture
              /\ mirror'[1].texture_view = mirror[1].texture_view
              /\ textures' = textures
         ELSE /\ ~pass'.reused
              /\ textures' = textures + 1
              /\ mirror'[1].texture > textures
              /\ mirror'[1].texture_view > textures
              /\ mirror # <<>> => /\ mirror'[1].texture # mirror[1].texture
                                  /\ mirror'[1].texture_view # mirror[1].texture_view]_vars

\* a pass reused the texture that an earlier pass had allocated after a change of size
ReusedAfterSizeChange ==
    /\ pass.returned = "Ok"
    /\ pass.reused
    /\ mirror # <<>>
    /\ mirror[1].texture = 2
    /\ textures = 2

\* the texel of the texel array tx of a field of size s that belongs at the texture
\* coordinate c: rows along x, then y, then z
TexelFor(tx, s, c) == tx[1 + c[1] + s[1] * (c[2] + s[2] * c[3])]

\* C15: every preparation pass that succeeds, with a reused texture or a new one,
\* uploads the whole texel buffer of its snapshot from origin zero over the full extent:
\* afterwards the texture holds every one of the size.x * size.y * size.z texels.
EveryPassUploadsAll ==
    [][(PassStep /\ pass'.returned = "Ok" /\ ~pass'.failed) =>
         /\ ProductIs(snapshot[1].size, Cardinality(DOMAIN mirror'[1].contents))
         /\ Cardinality(DOMAIN mirror'[1].contents) = Len(snapshot[1].texels)
         /\ \A c \in DOMAIN mirror'[1].contents :
              /\ \A i \in 1..3 : c[i] < snapshot[1].size[i]
              /\ mirror'[1].contents[c] = TexelFor(snapshot[1].texels, snapshot[1].size, c)]_vars

\* a pass that reused its texture has put an edited texel into it
ReusedTextureRewritten ==
    /\ pass.returned = "Ok"
    /\ pass.reused
    /\ ~pass.failed
    /\ mirror # <<>>
    /\ \E c \in DOMAIN mirror[1].contents : mirror[1].contents[c] # ZeroTexel

\* C16: when the render device cannot satisfy a request of a preparation pass, the pass
\* returns an explicit error and changes nothing: the mirror installed before (texture,
\* view, size, label, contents) is still installed, unchanged.
FailedPassReportsError ==
    [][(PassStep /\ pass'.failed) =>
         /\ pass'.returned = "Err"
         /\ mirror' = mirror
         /\ textures' = textures
         /\ render' = render]_vars

\* C17: no step of the field or of its edit session (modify, get, get_mut, set,
\* fill_from_gen, the release) changes the mirror's texture, view, size, label or
\* contents: the mirror changes only in a preparation pass, which gives it the label
\* and the size of the snapshot handed to that pass.
MirrorChangesOnlyInPass ==
    [][/\ ~PassStep => (mirror' = mirror /\ textures' = textures)
       /\ (PassStep /\ pass'.returned = "Ok") =>
            /\ mirror'[1].size = snapshot[1].size
            /\ mirror'[1].label = snapshot[1].label
       /\ (PassStep /\ pass'.returned # "Ok") => mirror' = mirror]_vars

\* the field has been edited and flushed since the last pass: the texture of the mirror
\* still holds the texels of the snapshot, which are no longer those of the field
MirrorBehindField ==
    /\ phase = "idle"
    /\ exitPath = "scope"
    /\ mirror # <<>>
    /\ mirror[1].valid
    /\ mirror[1].size = size
    /\ \E c \in DOMAIN mirror[1].contents :
         mirror[1].contents[c] # TexelFor(texels, size, c)

\* C18: the sampler is created exactly once, by the render startup, with linear
\* filtering and clamp-to-edge addressing on the three axes; a preparation pass neither
\* creates nor replaces a sampler, so every pass runs with that one sampler.
SamplerCreatedOnce ==
    [][/\ sampler' # sampler => (render = "startup" /\ sampler = <<>>)
       /\ Len(sampler') <= 1
       /\ render' \in {"running", "crashed"} =>
            /\ Len(sampler') = 1
            /\ sampler'[1].address_mode_u = "ClampToEdge"
            /\ sampler'[1].address_mode_v = "ClampToEdge"
            /\ sampler'[1].address_mode_w = "ClampToEdge"
            /\ sampler'[1].mag_filter = "Linear"
            /\ sampler'[1].min_filter = "Linear"
       /\ PassStep => (Len(sampler) = 1 /\ sampler' = sampler)]_vars

\* several passes have run, allocating and reusing textures for a labelled field, and
\* there is one sampler
OneSamplerAfterPasses ==
    /\ Len(sampler) = 1
    /\ textures = 2
    /\ pass.returned = "Ok"
    /\ mirror # <<>>
    /\ mirror[1].label # <<>>

\* the sum of what the first k of the generators parts return at p, from the zero vector
RECURSIVE SumOutputs(_, _, _)
SumOutputs(parts, p, k) ==
    IF k = 0 THEN ZERO
    ELSE AddVec(SumOutputs(parts, p, k - 1), Generate(parts[k], p).out)

\* the last call of generate was made on the tuple parts at p
TupleCalled(parts, p) ==
    /\ Len(probe.trace) = Len(parts)
    /\ \A i \in 1..Len(parts) : probe.trace[i] = <<parts[i], p>>
    /\ generator = Tuple([i \in 1..Len(parts) |-> Generate(parts[i], p).gen])
    /\ probe.out = SumOutputs(parts, p, Len(parts))
    /\ Len(parts) = 2 =>
         probe.out = AddVec(Generate(parts[1], p).out, Generate(parts[2], p).out)
    /\ Len(parts) = 0 => probe.out = ZERO

\* C19: generate(p) of a tuple of generators calls each component exactly once, with
\* the position p, in the order of the tuple, and returns the sum of what they return,
\* accumulated from the zero vector; G1.generate(p) + G2.generate(p) for a pair, the zero
\* vector for the empty tuple.
TupleSumsComponents ==
    (probe.k > 0 /\ probe.before.kind = "tuple") => TupleCalled(probe.before.parts, probe.pos)

\* a tuple of three was called whose sum depends on the order of the additions:
\* (8388608.0 + 0.5) + 0.5 is 8388608.0 in f32
TupleOfThreeSummed ==
    /\ probe.k > 0
    /\ probe.before.kind = "tuple"
    /\ Len(probe.before.parts) = 3
    /\ probe.before.parts[1].v[1] = 16777216
    /\ probe.before.parts[2].v[1] = 1
    /\ probe.before.parts[3].v[1] = 1
    /\ probe.out[1] = 16777216

\* the inverse of the transform t applied to p: (p - translation) / scale on each axis
InverseApplied(t, p) == [i \in 1..3 |-> (2 * (p[i] - t.translation[i])) \div t.scale[i]]

\* the last call of generate, on inner transformed by t, was inner's generate at q
InnerCalledAt(inner, q) ==
    \E r \in {GenerateComposed(inner, q)} :
      /\ probe.out = r.out
      /\ probe.trace = r.trace
      /\ generator.inner = r.gen
      /\ inner.kind \in {"uniform", "position", "counter"} => Len(probe.trace) = 1

\* C20: g.transformed(T).generate(p) is g.generate(inverse(T) applied to p), the inner
\* generator being called once; the world-to-local map is the inverse of T, computed
\* when the combinator is built, and is the same on every later call.
TransformedUsesInverse ==
    /\ generator.kind = "transformed" =>
         \A p \in GenPositions :
           transform_point3(generator.world_to_local, p)
             = InverseApplied(probe.transform[1], p)
    /\ (probe.k > 0 /\ probe.before.kind = "transformed") =>
         /\ generator.world_to_local = probe.before.world_to_local
         /\ InnerCalledAt(probe.before.inner, InverseApplied(probe.transform[1], probe.pos))

\* a transformed position closure was called twice, with a transform that moves and
\* scales, and returned the position mapped into its local space
TransformedCalledTwice ==
    /\ probe.k = 2
    /\ probe.before.kind = "transformed"
    /\ probe.before.inner.kind = "position"
    /\ probe.transform[1].translation = <<2, -4, 6>>
    /\ probe.pos = <<1, -3, 4>>
    /\ probe.out = New(<<-2, 1, -4>>, 2)

\* the last call of generate, on inner amplified by k, called inner once at the position
\* p and returned its vector times k
AmplifiedCalled(inner, k, p) ==
    \E r \in {GenerateComposed(inner, p)} :
      /\ probe.out = [i \in Chan |-> MulF32(r.out[i], k)]
      /\ probe.trace = r.trace
      /\ generator = Amplified(r.gen, k)
      /\ inner.kind \in {"uniform", "position", "counter"} =>
           /\ probe.trace = <<<<inner, p>>>>
           /\ probe.out = [i \in Chan |-> MulF32(Generate(inner, p).out[i], k)]
           /\ generator.inner.n = inner.n + (IF inner.kind = "counter" THEN 1 ELSE 0)

\* C21: g.amplified(k).generate(p) is g.generate(p) * k on all four channels, for every
\* position p and finite k; the inner generator is called exactly once per call, with
\* the position p as it was given.
AmplifiedMultiplies ==
    (probe.k > 0 /\ probe.before.kind = "amplified") =>
        AmplifiedCalled(probe.before.inner, probe.before.multiplier, probe.pos)

\* an amplified counting closure was called twice with the multiplier -3.0: the second
\* call returned the density 2.0 * -3.0
AmplifiedCounterCalledTwice ==
    /\ probe.k = 2
    /\ probe.before.kind = "amplified"
    /\ probe.before.inner.kind = "counter"
    /\ probe.before.multiplier = -6
    /\ probe.out = <<0, 0, 0, -12>>
    /\ generator.inner.n = 2

\* coord + 0.5 - size/2 on one axis, in halves, computed on integers
Centred(c, n) == 2 * c + 1 - n

\* the coordinate size - 1 - c
Opposite(c, gs) == [i \in 1..3 |-> gs[i] - 1 - c[i]]

\* the sample position on axis i is the centred one, the opposite coordinate has the
\* negated one, and an extent of 1 has the position 0
CentredOnAxis(i) ==
    /\ calc.pos[i] = Centred(calc.coord[i], calc.size[i])
    /\ SamplePosition(Opposite(calc.coord, calc.size), calc.size)[i] = -calc.pos[i]
    /\ calc.size[i] = 1 => calc.pos[i] = 0

\* C22 as stated: the position handed to the generator for the coordinate c is
\* coord + 0.5 - size/2 on each axis, for every size; the positions of c and of
\* size - 1 - c are negatives of each other, and an extent of 1 has the position 0.
SamplePositionCentred ==
    calc.op = "pos_vec3" => \A i \in 1..3 : CentredOnAxis(i)

\* C22: on every axis whose extent is at most 2^23, whatever the other axes, the
\* position handed to the generator for the coordinate c is coord + 0.5 - size/2; the
\* positions of c and of size - 1 - c are negatives of each other, and an extent of 1
\* has the position 0. (Nothing is stated for a longer axis: there the steps of the
\* expression round in f32, and SamplePositionCentred fails.)
SamplePositionCentredWhereExact ==
    calc.op = "pos_vec3" =>
        \A i \in 1..3 : calc.size[i] <= ExactExtent => CentredOnAxis(i)

\* the position of the last cell of an axis of extent 2^23 beside an axis of extent 1:
\* 4194303.5 and 0
SampledLastCellOfLongestExactAxis ==
    /\ calc.op = "pos_vec3"
    /\ calc.size = <<ExactExtent, 1, 2>>
    /\ calc.coord = <<ExactExtent - 1, 0, 1>>
    /\ calc.pos = <<ExactExtent - 1, 0, 1>>

\* the last call of velocity() divided each component of the momentum density by the
\* density: velocity * density is the momentum density
Divided ==
    IF calc.d = 0
    THEN \A i \in 1..3 : calc.vel[i] \in {NaN, PosInf, NegInf}
    ELSE \A i \in 1..3 : calc.vel[i] * density(calc.fv) = 2 * momentum_density(calc.fv)[i]

\* C23: velocity() is momentum_density() divided by density() on each component, and is
\* momentum_density() when the density is 1; from_velocity(v, d) is new(v * d, d), so
\* that for a non-zero d, where the arithmetic is exact, from_velocity(v, d).velocity()
\* is v and its density() is d.
VelocityIsMomentumOverDensity ==
    /\ calc.made = "from_velocity" =>
          calc.fv = New([i \in 1..3 |-> MulF32(calc.v[i], calc.d)], calc.d)
    /\ calc.op = "velocity" =>
          /\ Divided
          /\ density(calc.fv) = 2 => calc.vel = momentum_density(calc.fv)
          /\ (calc.made = "from_velocity" /\ calc.d # 0) =>
                (calc.vel = calc.v /\ density(calc.fv) = calc.d)

\* from_velocity((1.5, -12, 0), 3.0) holds the momentum density (4.5, -36, 0), and its
\* velocity() is (1.5, -12, 0) again
VelocityOfFromVelocity ==
    /\ calc.op = "velocity"
    /\ calc.made = "from_velocity"
    /\ calc.v = <<3, -24, 0>>
    /\ calc.d = 6
    /\ calc.fv = <<9, -72, 0, 6>>
    /\ calc.vel = <<3, -24, 0>>

\* the step is a call of insert by prepare_flow_field_indices
InsertCall == run.pc = "insert" /\ run.todo # <<>> /\ run' # run

\* C24: insert for a field id that has no prepared mirror returns FlowFieldMissingError
\* carrying that id and leaves the indices map and the field_textures list unchanged;
\* the error is returned to the caller, not raised as a panic; an insert for an id whose
\* mirror has been prepared succeeds, also after an earlier failure for that id.
MissingMirrorIsReported ==
    [][InsertCall =>
         IF fields[Head(run.todo)] = 0
         THEN /\ ~run'.call.ok
              /\ run'.call.id = Head(run.todo)
              /\ run'.returned = "err"
              /\ run'.id = Head(run.todo)
              /\ indices' = indices
              /\ field_textures' = field_textures
         ELSE /\ run'.call.ok
              /\ run'.returned # "err"
              /\ Head(run.todo) \in DOMAIN indices']_vars

\* the id "a" was reported missing in an earlier pass, its mirror was prepared since,
\* and the insert for it now succeeded after an insert for "b"
InsertedAfterMissing ==
    /\ run.call.op = "insert"
    /\ run.call.id = "a"
    /\ run.call.ok
    /\ run.call.index = 1
    /\ "a" \in run.missed
    /\ fields["a"] # 0

\* the map and the list agree: as many keys as views, the indices are exactly
\* 0 .. len-1, and each id's index is the place of the view of its mirror
Consistent(ix, ft, fs) ==
    /\ Cardinality(DOMAIN ix) = Len(ft)
    /\ {ix[id] : id \in DOMAIN ix} = 0..(Len(ft) - 1)
    /\ \A id, other \in DOMAIN ix : ix[id] = ix[other] => id = other
    /\ \A id \in DOMAIN ix : fs[id] # 0 /\ ft[ix[id] + 1] = fs[id]

\* the field ids of the region's flows
FlowIds == {flows[k] : k \in 1..Len(flows)}

\* the step is a call of clear or of insert, or the return of Ok(())
ClearCall == run.pc = "idle" /\ run'.pc = "insert"

FinishOk == run.pc = "insert" /\ run'.returned = "ok"

\* C30: after every call of clear() and of insert(fields, id) the indices map and the
\* field_textures list are consistent: the same length, the indices exactly 0..len-1
\* without duplicates, field_textures[indices[id]] the view of id's mirror; an insert of
\* an id already present returns its index and changes neither; and when
\* prepare_flow_field_indices returns Ok the keys are the field ids of the region's
\* flows, nothing being left of an earlier pass.
IndicesStayConsistent ==
    [][/\ (ClearCall \/ InsertCall) => Consistent(indices', field_textures', fields')
       /\ (InsertCall /\ Head(run.todo) \in DOMAIN indices /\ fields[Head(run.todo)] # 0) =>
            /\ run'.call.ok
            /\ run'.call.index = indices[Head(run.todo)]
            /\ indices' = indices
            /\ field_textures' = field_textures
       /\ FinishOk =>
            /\ DOMAIN indices' = FlowIds
            /\ Consistent(indices', field_textures', fields')]_vars

\* a pass returned Ok for a region whose two flows use the field "b", whose mirror holds
\* the third view created: the two inserts left one index and one view
RepeatedIdAfterEarlierPass ==
    /\ run.returned = "ok"
    /\ flows = <<"b", "b">>
    /\ DOMAIN indices = {"b"}
    /\ indices["b"] = 0
    /\ field_textures = <<3>>
    /\ fields["a"] = 1

\* C25: value() of a Measured in its default, never measured state returns
\* MissingMeasuredValueError, never a default or zero value; it returns Ok(x) only when
\* the value x has been stored, and then it returns that x.
UnmeasuredValueIsMissing ==
    [][reading' # reading =>
         /\ measured = <<>> => reading'.kind = "MissingMeasuredValueError"
         /\ reading'.kind = "ok" => measured = <<reading'.x>>
         /\ measured # <<>> => (reading'.kind = "ok" /\ reading'.x = measured[1])]_vars

\* the zero vector was stored and value() returned Ok of it
ReadStoredZero ==
    /\ measured = <<ZERO>>
    /\ reading = [kind |-> "ok", x |-> ZERO]

\* the coordinate that comes r-th (from 0) in the lexicographic order of (x, y, z)
CoordOfRank(r, gs) == <<r \div (gs[2] * gs[3]), (r \div gs[3]) % gs[2], r % gs[3]>>

\* the k-th call of the last fill was made for the k-th coordinate of the lexicographic
\* order, and every call but a last, panicking one stored its vector
CallInOrder(k) ==
    /\ calls[k] = CoordOfRank(k - 1, gsize)
    /\ (k < Len(calls) \/ last.ok) =>
         /\ ScratchPlace(gsize, calls[k], Len(scratch), ChecksOn(gsize)) # 0
         /\ lastGen.kind = "counter" => Reads(gsize, scratch, calls[k], New(<<0, 0, 0>>, 2 * k))

\* C26: fill_from_gen calls the generator sequentially, in the lexicographic order of
\* (x, y, z) with x outermost and z innermost; the sequence of calls is determined by
\* the size alone, so that a generator that counts its calls leaves the same values
\* at the same coordinates on every run.
FillOrderLexicographic ==
    (phase \in {"open", "unwinding"} /\ last.op = "fill_from_gen") =>
      /\ \A k \in 1..Len(calls) : CallInOrder(k)
      /\ (last.ok /\ ZeroExtent(gsize)) => Len(calls) = 0
      /\ (last.ok /\ ~ZeroExtent(gsize)) => ProductIs(gsize, Len(calls))
      /\ ~last.ok =>
           /\ Len(calls) > 0
           /\ ScratchPlace(gsize, calls[Len(calls)], Len(scratch), ChecksOn(gsize)) = 0

\* the counting closure was called for the four cells of a field of size (1, 2, 2), z
\* running before y, and its first three counts were stored
CounterFilledInOrder ==
    /\ phase \in {"open", "unwinding"}
    /\ last.op = "fill_from_gen"
    /\ lastGen.kind = "counter"
    /\ gsize = <<1, 2, 2>>
    /\ calls = <<<<0, 0, 0>>, <<0, 0, 1>>, <<0, 1, 0>>, <<0, 1, 1>>>>
    /\ Reads(gsize, scratch, <<0, 1, 0>>, New(<<0, 0, 0>>, 6))

\* the mirror m holds a texture created with the extent m.size, and the view of that
\* texture (a view has the number of the texture it was created from)
MirrorMatchesTexture(m, made) ==
    /\ m.texture \in 1..Len(made)
    /\ made[m.texture] = m.size
    /\ m.texture_view = m.texture

\* C27: after every successful preparation pass, whatever the sizes of the sources
\* have been, the mirror installed records the size and the label of the source of
\* that pass, holds a texture whose extent is that size, and the view of that same
\* texture; a reused texture is never paired with a size other than the one it was
\* created with.
MirrorMatchesSource ==
    [][(PassStep /\ pass'.returned = "Ok" /\ ~pass'.failed) =>
         /\ mirror' # <<>>
         /\ mirror'[1].size = snapshot[1].size
         /\ mirror'[1].label = snapshot[1].label
         /\ MirrorMatchesTexture(mirror'[1], created')
         /\ pass'.reused => created'[mirror'[1].texture] = created[mirror[1].texture]]_vars

\* a pass reused the second texture, created when the size changed, for a source that
\* had been labelled since
ReusedForLabelledSource ==
    /\ pass.returned = "Ok"
    /\ ~pass.failed
    /\ pass.reused
    /\ mirror # <<>>
    /\ mirror[1].texture = 2
    /\ mirror[1].label = <<"wind">>
    /\ created = <<<<1, 1, 2>>, <<1, 2, 1>>>>
    /\ mirror[1].size = <<1, 2, 1>>

\* C28: the edit session stores the value set at (x, y, z) at the place from which the
\* upload, with bytes_per_row = size.x * 8 and rows_per_image = size.y, takes the texel
\* of the texture coordinate (x, y, z): the flat index x + size.x * (y + size.y * z).
SessionOrderIsUploadOrder ==
    (phase \in {"open", "unwinding"} /\ last.op = "set" /\ InRange(last.c, gsize)) =>
      /\ last.ok
      /\ ScratchPlace(gsize, last.c, Len(scratch), ChecksOn(gsize))
           = BufferPlace(last.c, gsize[2], WordVal(BytesPerRow(gsize).val))
      /\ BufferPlace(last.c, gsize[2], WordVal(BytesPerRow(gsize).val))
           = 1 + last.c[1] + gsize[1] * (last.c[2] + gsize[2] * last.c[3])

\* no write has been made in the open session: it was just opened, or the field has
\* never been written and the last call was a read
NoWriteInSession == last.op = "modify" \/ (last.op = "get" /\ writes = 0)

\* C29: a session that is opened and released without a write leaves the texels
\* bit for bit as they were (decompressing and recompressing a stored texel gives the
\* same texel), in every such cycle; no step of a session, its opening and its end
\* included, changes the size or the label.
ReleaseWithoutWriteKeepsTexels ==
    [][/\ (SessionEnds /\ NoWriteInSession) => texels' = texels
       /\ (phase \in {"open", "unwinding"} \/ phase' = "open") =>
            (size' = size /\ label' = label)]_vars

\* a session was opened again on a labelled field whose texels hold the roundings of
\* (1024.5, -2049.5, 70000, 65519.5): 1024, -2050, infinity and 65504
ReopenedOnRoundedTexels ==
    /\ phase = "open"
    /\ last.op = "modify"
    /\ writes = 1
    /\ label = <<"wind">>
    /\ \E i \in 1..Len(texels) :
         /\ texels[i] = CompressVec(New(<<2049, -4099, 140000>>, 131039))
         /\ scratch[i] = <<2048, -4100, PosInf, 131008>>

\* the tracked entities of the present world
Alive == {e \in EntityIds : tracked[e].life = "alive"}

\* update_activities has just run
Updated == system.name = "update_activities"

\* in the last run aabbs_intersect reported that entity e intersects region i
Reported(e, i) ==
    \E k \in 1..Len(system.reported) :
        system.reported[k] = [entity |-> e, region |-> i, result |-> TRUE]

\* the number of events of kind ev triggered for the entity e
Count(ev, e) ==
    Cardinality({k \in 1..Len(triggered) :
                    triggered[k].event = ev /\ triggered[k].entity = e})

\* C31: after a run of update_activities a tracked entity carries Active if and only
\* if aabbs_intersect reported it as intersecting at least one ActiveRegion in that
\* run, whatever the order of the regions and whether or not it was Active before;
\* with no active region no tracked entity stays Active.
ActiveIffIntersectsSomeRegion ==
    Updated =>
        \A e \in Alive :
            tracked[e].active <=> \E i \in 1..Len(active_regions) : Reported(e, i)

\* C32: in one run of update_activities a tracked entity whose Active state changes
\* gets exactly one Activate or one Deactivate (never both, never one per region) and
\* exactly one SetActive whose flag is the new state; an entity whose state does not
\* change gets no event.
OneEventPerChange ==
    Updated =>
        \A e \in Alive :
            IF tracked[e].active # system.was[e]
            THEN /\ Count("Activate", e) = (IF tracked[e].active THEN 1 ELSE 0)
                 /\ Count("Deactivate", e) = (IF tracked[e].active THEN 0 ELSE 1)
                 /\ Count("SetActive", e) = 1
                 /\ \A k \in 1..Len(triggered) :
                        (triggered[k].event = "SetActive" /\ triggered[k].entity = e)
                            => triggered[k].active = tracked[e].active
            ELSE \A k \in 1..Len(triggered) : triggered[k].entity # e

\* C33: after a run of update_activities the ActiveEntities list of every region holds
\* exactly the tracked entities that aabbs_intersect reported as intersecting that
\* region, each at most once.
ListsHoldIntersectingEntities ==
    Updated =>
        \A i \in 1..Len(active_regions) :
            /\ \A e \in Alive :
                  Reported(e, i) <=>
                      \E k \in 1..Len(active_regions[i].active_entities) :
                          active_regions[i].active_entities[k] = e
            /\ \A k, l \in 1..Len(active_regions[i].active_entities) :
                  active_regions[i].active_entities[k] = active_regions[i].active_entities[l]
                      => k = l

\* the boxes a and b overlap on all three axes
Overlap(a, b) ==
    \A i \in 1..3 : AabbMin(a)[i] < AabbMax(b)[i] /\ AabbMin(b)[i] < AabbMax(a)[i]

\* C34: aabbs_intersect(a, b) is true exactly when the two boxes overlap on all three
\* axes, false for boxes separated along an axis, and symmetric in its arguments.
IntersectIsOverlap ==
    Updated =>
        \A k \in 1..Len(system.reported) :
            /\ system.reported[k].result
                  = Overlap(tracked[system.reported[k].entity].aabb,
                            active_regions[system.reported[k].region].aabb)
            /\ system.reported[k].result
                  = aabbs_intersect(active_regions[system.reported[k].region].aabb,
                                    tracked[system.reported[k].entity].aabb)

\* SetActiveMany has just been applied
Applied == system.name = "SetActiveMany"

\* the entity e is listed in the command just applied, and still exists
Listed(e) ==
    /\ tracked[e].life = "alive"
    /\ \E i \in 1..Len(system.entities) : system.entities[i] = e

\* the places of the command's list whose entity exists, was not in the requested
\* state, and is not listed at an earlier place
Changing ==
    {i \in 1..Len(system.entities) :
        /\ tracked[system.entities[i]].life = "alive"
        /\ system.was[system.entities[i]] # system.active
        /\ \A j \in 1..(i - 1) : system.entities[j] # system.entities[i]}

\* C35: after SetActiveMany{entities, active} is applied every listed entity that
\* exists carries Active iff active is true; an entity already in that state gets no
\* event; another gets its marker changed, then SetActive, then Activate or Deactivate,
\* once, in the order of the list; entities that no longer exist are skipped and the
\* rest of the batch is still applied; the same command applied again triggers nothing.
SetActiveManyApplies ==
    Applied =>
        /\ \A e \in EntityIds : Listed(e) => tracked[e].active = system.active
        /\ \A e \in EntityIds : ~Listed(e) => tracked[e].active = system.was[e]
        /\ Len(triggered) = 2 * Cardinality(Changing)
        /\ \A i \in Changing :
              \E k \in 1..Cardinality(Changing) :
                 /\ k = Cardinality({j \in Changing : j <= i})
                 /\ triggered[2 * k - 1]
                       = SetActive(system.entities[i], system.active, system.active)
                 /\ triggered[2 * k]
                       = (IF system.active
                          THEN Activate(system.entities[i], TRUE)
                          ELSE Deactivate(system.entities[i], FALSE))
        /\ apply(system.entities, system.active, 1,
                 [tracked |-> tracked, triggered |-> <<>>]).triggered = <<>>

\* a command whose first entity no longer exists has changed its second entity
SkippedMissingThenChanged ==
    /\ Applied
    /\ Len(system.entities) = 2
    /\ tracked[system.entities[1]].life = "despawned"
    /\ tracked[system.entities[2]].life = "alive"
    /\ system.was[system.entities[2]] # system.active
    /\ Len(triggered) = 2

\* C36: Trigger::from_bounds(range) keeps both bounds of the range: the trigger's
\* start_bound() is range.start_bound() and its end_bound() is range.end_bound(), for
\* every combination of Included, Excluded and Unbounded.
FromBoundsKeepsBothBounds ==
    trigger.made =>
        /\ start_bound(trigger) = trigger.range.start
        /\ end_bound(trigger) = trigger.range.end

\* C37: FlowLayers is a 32-bit mask addressed by a Layer 0..=255: layer(l), with(l) and
\* without(l) complete without shift overflow for every l; s.with(l) intersects
\* layer(l) and s.without(l) does not; with and without leave the membership of every
\* other layer as it was; none() intersects nothing and all() intersects every mask
\* that is not empty.
LayerOpsCompleteAndKeepOthers ==
    /\ layerCall.op \in {"layer", "with", "without"} => layerCall.completed
    /\ (layerCall.op = "with" /\ layerCall.completed)
          => /\ intersects(layerCall.out, layer(layerCall.layer, layerCall.build).bits)
             /\ \A m \in 0..31 :
                   m # layerCall.layer
                      => (intersects(layerCall.out, {m}) <=> intersects(layerCall.self, {m}))
    /\ (layerCall.op = "without" /\ layerCall.completed)
          => /\ ~intersects(layerCall.out, layer(layerCall.layer, layerCall.build).bits)
             /\ \A m \in 0..31 :
                   m # layerCall.layer
                      => (intersects(layerCall.out, {m}) <=> intersects(layerCall.self, {m}))
    /\ (layerCall.op = "intersects" /\ layerCall.self = FlowLayersNone) => ~layerCall.hit
    /\ (layerCall.op = "intersects" /\ layerCall.self = FlowLayersAll
            /\ layerCall.other # {}) => layerCall.hit

====
